---- MODULE Spec2Model ----
(***************************************************************************)
(* Model of the data layer of the PNW grid dashboard:                      *)
(*   - useGridData (src/src/data/useGridData.ts), the refresh controller;  *)
(*   - the live data client of src/src/data/api.ts (token cache, the four  *)
(*     sub-fetches, Promise.all assembly, the provider-B pivots);          *)
(*   - the simulation engine of src/src/data/api.ts.                       *)
(*                                                                         *)
(* Scheduling is the browser's: one handler (a timer callback, or the      *)
(* continuation of an HTTP response with all the microtasks it triggers)   *)
(* runs to completion before the next one starts.  Each action below is    *)
(* one such handler.                                                       *)
(***************************************************************************)
EXTENDS Integers, Sequences, FiniteSets, TLC

\* ------------------------------------------------------------------ bounds

\* Number of refresh cycles (simulated refreshes or live assemblies) started.
MaxCycles == 2

\* The clock advances at most this many times.
MaxElapse == 2

\* Number of rows in a provider-B response.
MaxRows == 3

\* Number of distinct neighbours in one interchange response.
MaxNeighbours == 10

\* Number of calls of getGridSnapshot in a row.
MaxCalls == 2

\* Number of points in an intensity response.
MaxPoints == 2

\* Number of timestamps of the generation series of an assembly.
MaxStamps == 5

\* Number of slots of a window of simulated intensity.
MaxWindow == 3

\* ------------------------------------------------------------- vocabulary

\* JavaScript null for the snapshot and for the error string.
null == [null |-> TRUE]

\* wattTimeToken = null (api.ts:16).
NullToken == "null"

\* Tokens the login endpoint may answer with ({token: string}).
Tokens == {"tokA", "tokB"}

\* The four sub-fetches of fetchLiveData, in Promise.all order.
Metrics == {"carbon", "generation", "demand", "interchange"}

EIAMetrics == {"generation", "demand", "interchange"}

\* Non-success HTTP statuses an upstream may answer with.
FailStatuses == {401, 503}

Cycles == 1..MaxCycles

VARIABLES
    DEMO_MODE,      \* useGridData.ts:5, fixed at build time
    mounted,        \* "init" | "mounted" | "unmounted": the effect's timer
    clock,          \* Date.now(), in ms
    data,           \* useState: the held snapshot
    lastUpdated,    \* useState
    isLive,         \* useState
    error,          \* useState
    fetching,       \* useRef: fetching.current
    wattTimeToken,  \* api.ts:16
    tokenExpiry,    \* api.ts:17
    cycles,         \* number of refresh cycles started so far
    asm,            \* per cycle: the fetchLiveData promise
    sub,            \* per cycle, per metric: the sub-fetch promise
    hist,           \* per cycle: what held when the cycle started
    droppedTick     \* a tick was dropped by the in-flight guard

\* The inputs and results of the pure functions of api.ts, for the
\* specifications that apply one function to inputs drawn at the start.
VARIABLES
    stage,          \* which function is applied, and whether it has been
    genRows,        \* fetchGeneration: the rows fetchEIA resolved with
    genPoints,      \* fetchGeneration: the points returned
    simDraw,        \* generateGenerationMix: hour factors and rng() draws
    simPoint,       \* generateGenerationMix: the point pushed
    closures,       \* seededRandom: the variable s of every closure made
    input,          \* the argument of the function applied, or the
                    \* responses of the upstreams
    output          \* what the function returned

ctl == <<data, lastUpdated, isLive, error, fetching>>
tok == <<wattTimeToken, tokenExpiry>>
pure == <<stage, genRows, genPoints, simDraw, simPoint, closures, input,
         output>>
controller == <<DEMO_MODE, mounted, clock, data, lastUpdated, isLive, error,
                fetching, wattTimeToken, tokenExpiry, cycles, asm, sub, hist,
                droppedTick>>
vars == <<controller, pure>>

\* ---------------------------------------------------------------- constants

\* useGridData.ts:6
REFRESH_INTERVAL == IF DEMO_MODE THEN 5000 ELSE 300000

\* api.ts:31: 25 * 60_000
TOKEN_LIFETIME == 25 * 60000

\* ------------------------------------------------------- promises (values)

IdleSub == [st |-> "idle", err |-> null, tok |-> NullToken, res |-> null]

IdleAsm == [st |-> "idle", err |-> null, value |-> null]

IdleHist == [settled |-> {}, held |-> null, login |-> FALSE]

\* A sub-fetch whose settlement nobody observes any more: Promise.all has
\* rejected, so its value or error is dropped and it changes no state.
DetachedSub == [st |-> "detached", err |-> null, tok |-> NullToken, res |-> null]

\* The array a call of cycle c resolves with, as the controller sees it: an
\* object produced by that call.  What the points are is the subject of the
\* pivots and of the assembly of points further down.
Series(c, k) == [from |-> {c}, metric |-> k]

\* series[series.length - 1] ?? <zero-value record>  (api.ts:182-185,
\* 356-359): a record taken from, or made for, that series.
Latest(s) == [from |-> s.from, metric |-> s.metric]

\* ------------------------------------------------------ simulation engine

getGridSnapshotOnce(c) ==
    [latest |-> [k \in Metrics |-> Latest(Series(1, k))],
     timeSeries |-> [k \in Metrics |-> Series(1, k)]]

\* getGridSnapshot(now), as the c-th refresh (api.ts:348-363): four series
\* generated by this call, latest their last points.
getGridSnapshot(c) ==
    [latest |-> [k \in Metrics |-> Latest(Series(c, k))],
     timeSeries |-> [k \in Metrics |-> Series(c, k)]]

\* ------------------------------------------------------- live data client

TokenCachedAtExpiry == wattTimeToken # NullToken /\ clock <= tokenExpiry

\* getWattTimeToken's cache test (api.ts:20).
TokenCached == wattTimeToken # NullToken /\ clock < tokenExpiry

\* fetchCarbonSignal up to its first suspension (api.ts:36, 19-26): with a
\* cached token the signal request goes out with it, otherwise a login
\* request goes out first.
fetchCarbonSignal ==
    IF TokenCached
    THEN [st |-> "signal", err |-> null, tok |-> wattTimeToken, res |-> null]
    ELSE [st |-> "login", err |-> null, tok |-> NullToken, res |-> null]

\* fetchEIA up to its first suspension (api.ts:69-71).
fetchEIA == [st |-> "pending", err |-> null, tok |-> NullToken, res |-> null]

\* The entity path of each provider-B query (api.ts:78, 110, 134).
EIAPath(k) ==
    CASE k = "generation"  -> "electricity/rto/fuel-type-data/data/"
      [] k = "demand"      -> "electricity/rto/region-data/data/"
      [] k = "interchange" -> "electricity/rto/interchange-data/data/"

\* The errors thrown, by the parts of their message (api.ts:28, 41, 72); a
\* rejected fetch() throws a TypeError.
AuthError(status) == [message |-> <<"WattTime auth failed: ", status>>]
SignalError(status) == [message |-> <<"WattTime signal failed: ", status>>]
EIAError(k, status) == [message |-> <<"EIA ", EIAPath(k), " failed: ", status>>]
NetworkError == [message |-> <<"Failed to fetch">>]

\* The intensity series of the snapshot (api.ts:175-178): built from the
\* fetched intensity points and the timestamps of the generation series.
carbonSeries(carbon, generation) ==
    [from |-> carbon.from \cup generation.from, metric |-> "carbon"]

\* fetchLiveData after Promise.all resolved with r (api.ts:174-193).
fetchLiveData(r) ==
    LET series == [k \in Metrics |->
                     IF k = "carbon"
                     THEN carbonSeries(r["carbon"], r["generation"])
                     ELSE r[k]]
    IN [latest |-> [k \in Metrics |-> Latest(series[k])],
        timeSeries |-> series]

PromiseAllSettled(p, subs, k) ==
    IF p.st # "pending" THEN p
    ELSE IF \A m \in Metrics : subs[m].st \in {"ok", "failed"}
    THEN [st |-> "fulfilled", err |-> null,
          value |-> fetchLiveData([m \in Metrics |->
                      IF subs[m].st = "ok" THEN subs[m].res
                      ELSE [from |-> {}, metric |-> m]])]
    ELSE p

\* Promise.all over the sub-fetches of one cycle, after sub-fetch k settled
\* (api.ts:167-172): the first rejection rejects the whole, the last
\* fulfilment fulfils it; once settled it never changes.
PromiseAll(p, subs, k) ==
    IF p.st # "pending" THEN p
    ELSE IF subs[k].st = "failed"
    THEN [st |-> "rejected", err |-> subs[k].err, value |-> null]
    ELSE IF \A m \in Metrics : subs[m].st = "ok"
    THEN [st |-> "fulfilled", err |-> null,
          value |-> fetchLiveData([m \in Metrics |-> subs[m].res])]
    ELSE p

\* ------------------------------------------------------------ generation

\* A JavaScript string read character by character (row.value).
Chars(str) ==
    CASE str = "250"  -> <<"2", "5", "0">>
      [] str = "-40"  -> <<"-", "4", "0">>
      [] str = "N/A"  -> <<"N", "/", "A">>
      [] str = "12.7" -> <<"1", "2", ".", "7">>
      [] str = "0"    -> <<"0">>
      [] str = ""     -> <<>>
      [] str = "-300" -> <<"-", "3", "0", "0">>
      [] str = "40"   -> <<"4", "0">>
      [] str = "undefined" -> <<"u", "n", "d", "e", "f", "i", "n", "e", "d">>

DigitValue(ch) ==
    CASE ch = "0" -> 0 [] ch = "1" -> 1 [] ch = "2" -> 2 [] ch = "3" -> 3
      [] ch = "4" -> 4 [] ch = "5" -> 5 [] ch = "6" -> 6 [] ch = "7" -> 7
      [] ch = "8" -> 8 [] ch = "9" -> 9 [] OTHER -> -1

RECURSIVE Digits(_, _, _)
\* The value of the longest prefix of decimal digits of s from position i,
\* after acc; -1 when there is none.
Digits(s, i, acc) ==
    IF i > Len(s) \/ DigitValue(s[i]) < 0
    THEN acc
    ELSE Digits(s, i + 1, (IF acc < 0 THEN 0 ELSE acc) * 10 + DigitValue(s[i]))

NaN == [nan |-> TRUE, n |-> 0]

\* parseInt of a string with no leading blank and no 0x prefix: an optional
\* sign, then the digits up to the first character that is not one; NaN
\* when there is no digit.
parseInt(str) ==
    LET s == Chars(str)
        signed == Len(s) > 0 /\ s[1] \in {"-", "+"}
        d == Digits(s, IF signed THEN 2 ELSE 1, -1)
    IN IF d < 0 THEN NaN
       ELSE [nan |-> FALSE, n |-> IF signed /\ s[1] = "-" THEN -d ELSE d]

\* x || 0 for a number x: NaN and 0 are falsy.
OrZero(x) == IF x.nan THEN 0 ELSE x.n

Max(a, b) == IF a >= b THEN a ELSE b

GenValueUnclamped(value) == OrZero(parseInt(value))

\* Math.max(0, parseInt(row.value) || 0)  (api.ts:91)
GenValue(value) == Max(0, OrZero(parseInt(value)))

\* The properties an object literal inherits from Object.prototype.
ObjectPrototypeKeys ==
    {"constructor", "toString", "toLocaleString", "valueOf", "hasOwnProperty",
     "isPrototypeOf", "propertyIsEnumerable", "__proto__", "__defineGetter__",
     "__defineSetter__", "__lookupGetter__", "__lookupSetter__"}

\* fuelMap[row.fueltype] (api.ts:81-83, 92), as the property key it is used
\* as in pt[field]; "" stands for undefined.  The map is an object literal, so
\* the name of a property inherited from Object.prototype looks up a truthy
\* value too: the function of that name ("constructor" is the function
\* Object), or Object.prototype itself for "__proto__".  Used as a key, the
\* value is converted to its string.
fuelMap(fueltype) ==
    CASE fueltype = "WAT" -> "hydro"
      [] fueltype = "WND" -> "wind"
      [] fueltype = "NG"  -> "gas"
      [] fueltype = "SUN" -> "solar"
      [] fueltype = "__proto__" -> "[object Object]"
      [] fueltype = "constructor" -> "function Object() { [native code] }"
      [] fueltype \in ObjectPrototypeKeys ->
             "function " \o fueltype \o "() { [native code] }"
      [] OTHER -> ""

\* (pt as any)[field] = val  (api.ts:94)
Assign(pt, field, val) ==
    [f \in DOMAIN pt \cup {field} |-> IF f = field THEN val ELSE pt[f]]

\* The periods provider B may send, in the order of their timestamps.
Periods ==
    <<"2024-05-01T07", "2024-05-01T08", "2024-05-01T09", "2024-05-01T10",
      "2024-05-01T11", "2024-05-01T12", "2024-05-01T13">>

\* The periods of the rows drawn.
RowPeriods == {Periods[1], Periods[2]}

\* row.period + ':00:00Z'  (api.ts:86, 117, 141)
Timestamp(period) == period \o ":00:00Z"

\* a.localeCompare(b) < 0 for two timestamps made of Periods.
Before(a, b) ==
    \E i, j \in 1..Len(Periods) :
        i < j /\ a = Timestamp(Periods[i]) /\ b = Timestamp(Periods[j])

RECURSIVE SortByTimestamp(_)
\* points.sort((a, b) => a.timestamp.localeCompare(b.timestamp)): stable.
SortByTimestamp(points) ==
    IF Len(points) <= 1 THEN points
    ELSE LET rest == SortByTimestamp(Tail(points))
             p == Head(points)
             n == Cardinality({i \in 1..Len(rest) :
                                 Before(rest[i].timestamp, p.timestamp)})
         IN SubSeq(rest, 1, n) \o <<p>> \o SubSeq(rest, n + 1, Len(rest))

\* Index of the entry of the Map (a sequence in insertion order) whose key
\* is ts; 0 when there is none.
IndexOf(byPeriod, ts) ==
    IF \E i \in 1..Len(byPeriod) : byPeriod[i].timestamp = ts
    THEN CHOOSE i \in 1..Len(byPeriod) : byPeriod[i].timestamp = ts
    ELSE 0

NewGenerationPoint(ts) ==
    [timestamp |-> ts, hydro |-> 0, wind |-> 0, gas |-> 0, solar |-> 0,
     other |-> 0, total |-> 0]

GenerationRowSkipsUnparsed(byPeriod, row) ==
    IF parseInt(row.value).nan THEN byPeriod
    ELSE LET ts == Timestamp(row.period)
             map == IF IndexOf(byPeriod, ts) = 0
                    THEN Append(byPeriod, NewGenerationPoint(ts))
                    ELSE byPeriod
             i == IndexOf(map, ts)
             field == fuelMap(row.fueltype)
         IN [map EXCEPT ![i] =
               IF field # ""
               THEN Assign(map[i], field, GenValue(row.value))
               ELSE [map[i] EXCEPT !.other = map[i].other + GenValue(row.value)]]

\* One turn of the loop over the rows (api.ts:85-98).
GenerationRow(byPeriod, row) ==
    LET ts == Timestamp(row.period)
        map == IF IndexOf(byPeriod, ts) = 0
               THEN Append(byPeriod, NewGenerationPoint(ts))
               ELSE byPeriod
        i == IndexOf(map, ts)
        val == GenValue(row.value)
        field == fuelMap(row.fueltype)
    IN [map EXCEPT ![i] =
          IF field # ""
          THEN Assign(map[i], field, val)
          ELSE [map[i] EXCEPT !.other = map[i].other + val]]

RECURSIVE GenerationRows(_, _)
GenerationRows(byPeriod, rows) ==
    IF rows = <<>> THEN byPeriod
    ELSE GenerationRows(GenerationRow(byPeriod, Head(rows)), Tail(rows))

\* p.total = p.hydro + p.wind + p.gas + p.solar + p.other  (api.ts:101-103)
WithTotal(p) ==
    [p EXCEPT !.total = p.hydro + p.wind + p.gas + p.solar + p.other]

\* fetchGeneration once fetchEIA has resolved with rows (api.ts:80-105).
fetchGeneration(rows) ==
    LET byPeriod == GenerationRows(<<>>, rows)
    IN SortByTimestamp([i \in 1..Len(byPeriod) |-> WithTotal(byPeriod[i])])

\* ---------------------------------------------------------------- demand

NewDemandPoint(ts) == [timestamp |-> ts, demand |-> 0, forecast |-> 0]

\* One turn of the loop over the rows (api.ts:116-125).
DemandRow(byPeriod, row) ==
    LET ts == Timestamp(row.period)
        map == IF IndexOf(byPeriod, ts) = 0
               THEN Append(byPeriod, NewDemandPoint(ts))
               ELSE byPeriod
        i == IndexOf(map, ts)
        val == OrZero(parseInt(row.value))
    IN [map EXCEPT ![i] =
          IF row.type = "D" THEN [map[i] EXCEPT !.demand = val]
          ELSE IF row.type = "DF" THEN [map[i] EXCEPT !.forecast = val]
          ELSE map[i]]

RECURSIVE DemandRows(_, _)
DemandRows(byPeriod, rows) ==
    IF rows = <<>> THEN byPeriod
    ELSE DemandRows(DemandRow(byPeriod, Head(rows)), Tail(rows))

fetchDemandUnsorted(rows) == DemandRows(<<>>, rows)

\* fetchDemand once fetchEIA has resolved with rows (api.ts:115-129).
fetchDemand(rows) == SortByTimestamp(DemandRows(<<>>, rows))

\* ----------------------------------------------------------- interchange

Abs(x) == IF x < 0 THEN -x ELSE x

Min(a, b) == IF a <= b THEN a ELSE b

RECURSIVE Sum(_)
\* The sum of a sequence of numbers.
Sum(s) == IF s = <<>> THEN 0 ELSE Head(s) + Sum(Tail(s))

\* Index of the entry of the inner Map whose key is region; 0 when none.
FlowIndex(flows, region) ==
    IF \E i \in 1..Len(flows) : flows[i].region = region
    THEN CHOOSE i \in 1..Len(flows) : flows[i].region = region
    ELSE 0

\* entry.flows.set(region, (entry.flows.get(region) || 0) + val)
\* (api.ts:148): a new key goes last, a known key keeps its place.
FlowSet(flows, region, val) ==
    LET i == FlowIndex(flows, region)
    IN IF i = 0
       THEN Append(flows, [region |-> region, value |-> val])
       ELSE [flows EXCEPT ![i] = [region |-> region,
                                  value |-> flows[i].value + val]]

\* One turn of the loop over the rows (api.ts:140-150).
InterchangeRow(byPeriod, row) ==
    LET ts == Timestamp(row.period)
        map == IF IndexOf(byPeriod, ts) = 0
               THEN Append(byPeriod,
                           [timestamp |-> ts, netExport |-> 0, flows |-> <<>>])
               ELSE byPeriod
        i == IndexOf(map, ts)
        val == OrZero(parseInt(row.value))
    IN [map EXCEPT ![i] =
          [timestamp |-> ts,
           netExport |-> map[i].netExport + val,
           flows |-> FlowSet(map[i].flows, row.toba, val)]]

RECURSIVE InterchangeRows(_, _)
InterchangeRows(byPeriod, rows) ==
    IF rows = <<>> THEN byPeriod
    ELSE InterchangeRows(InterchangeRow(byPeriod, Head(rows)), Tail(rows))

RECURSIVE SortByMagnitude(_)
\* .sort((a, b) => Math.abs(b.value) - Math.abs(a.value))  (api.ts:158):
\* stable, larger magnitudes first.
SortByMagnitude(flows) ==
    IF Len(flows) <= 1 THEN flows
    ELSE LET rest == SortByMagnitude(Tail(flows))
             f == Head(flows)
             n == Cardinality({i \in 1..Len(rest) :
                                 Abs(rest[i].value) > Abs(f.value)})
         IN SubSeq(rest, 1, n) \o <<f>> \o SubSeq(rest, n + 1, Len(rest))

\* .slice(0, 8)  (api.ts:159)
TopFlows(flows) == SubSeq(flows, 1, Min(8, Len(flows)))

InterchangePointOfKept(entry) ==
    LET flows == TopFlows(SortByMagnitude(entry.flows))
    IN [timestamp |-> entry.timestamp,
        netExport |-> Sum([i \in 1..Len(flows) |-> flows[i].value]),
        flows |-> flows]

\* The point made of one entry of byPeriod (api.ts:153-160).
InterchangePoint(entry) ==
    [timestamp |-> entry.timestamp,
     netExport |-> entry.netExport,
     flows |-> TopFlows(SortByMagnitude(entry.flows))]

\* fetchInterchange once fetchEIA has resolved with rows (api.ts:139-163).
fetchInterchange(rows) ==
    LET byPeriod == InterchangeRows(<<>>, rows)
    IN SortByTimestamp([i \in 1..Len(byPeriod) |->
                          InterchangePoint(byPeriod[i])])

\* Numbers with a fraction are held in thousandths.
Scale == 1000

\* Math.round of x thousandths: the nearest integer, halves upwards.
Round(x) == (x + 500) \div Scale

\* One turn of the loop of generateGenerationMix (api.ts:298-303) but for
\* the timestamp: hf is hourFactor(hour, ...) of each of the four cycles and
\* r the five consecutive rng() draws, all in thousandths.
generateGenerationMix(hf, r) ==
    LET hydro == Round(Max(0, 3800 * Scale + hf["hydro"] * 600
                                + (r["hydro"] - 500) * 200))
        wind == Round(Max(0, 700 * Scale + (Scale - hf["wind"]) * 500
                               + (r["wind"] - 500) * 250))
        gas == Round(Max(0, 200 * Scale + hf["gas"] * 600
                              + (r["gas"] - 500) * 100))
        solar == Round(Max(0, hf["solar"] * 250 + (r["solar"] - 500) * 50))
        other == Round(Max(0, 200 * Scale + (r["other"] - 500) * 50))
    IN [hydro |-> hydro, wind |-> wind, gas |-> gas, solar |-> solar,
        other |-> other, total |-> hydro + wind + gas + solar + other]

\* Math.round(num / den) for den > 0: the nearest integer, halves upwards.
RoundDiv(num, den) == (2 * num + den) \div (2 * den)

\* api.ts:331
regions == <<"CAISO", "PACE", "PACW", "PSEI", "CHPD">>

\* One turn of the loop of generateInterchangeData (api.ts:337-343) but for
\* the timestamp: hf is hourFactor(hour, 15, 5) and r the eleven consecutive
\* rng() draws, all in thousandths.  A flow is
\* Math.round((netExport / 5) * (0.5 + rng()) + (rng() - 0.5) * 100).
generateInterchangeData(hf, r) ==
    LET netExport == Round(800 * Scale + (Scale - hf) * 800
                             + (r[1] - 500) * 300)
    IN [netExport |-> netExport,
        flows |-> [k \in 1..Len(regions) |->
                     [region |-> regions[k],
                      value |-> RoundDiv(netExport * (500 + r[2 * k])
                                           + Len(regions) * 100 * (r[2 * k + 1] - 500),
                                         Len(regions) * Scale)]]]

\* ------------------------------------------------------- dates and instants

\* An instant is a Date's time value, getTime() in ms, held as whole seconds
\* and the milliseconds left: [sec |-> ..., ms |-> 0..999].
\* now.getTime() - ms, for ms a whole number of seconds.
Earlier(now, seconds) == [sec |-> now.sec - seconds, ms |-> now.ms]

\* The calendar fields of the day that is `days` days after 1970-01-01, in
\* the proleptic Gregorian calendar.
CivilFromDays(days) ==
    LET z == days + 719468
        era == z \div 146097
        doe == z - era * 146097
        yoe == (doe - doe \div 1460 + doe \div 36524 - doe \div 146096) \div 365
        doy == doe - (365 * yoe + yoe \div 4 - yoe \div 100)
        mp == (5 * doy + 2) \div 153
        m == IF mp < 10 THEN mp + 3 ELSE mp - 9
    IN [year |-> yoe + era * 400 + (IF m <= 2 THEN 1 ELSE 0),
        month |-> m,
        day |-> doy - (153 * mp + 2) \div 5 + 1]

\* The number of days from 1970-01-01 to the day year-month-day.
DaysFromCivil(year, month, day) ==
    LET y == IF month <= 2 THEN year - 1 ELSE year
        era == y \div 400
        yoe == y - era * 400
        doy == (153 * (IF month > 2 THEN month - 3 ELSE month + 9) + 2) \div 5
                 + day - 1
        doe == yoe * 365 + yoe \div 4 - yoe \div 100 + doy
    IN era * 146097 + doe - 719468

\* The calendar and clock fields of an instant moved by offset minutes.
Fields(t, offset) ==
    LET s == t.sec + offset * 60
        date == CivilFromDays(s \div 86400)
        rest == s % 86400
    IN [year |-> date.year, month |-> date.month, day |-> date.day,
        hour |-> rest \div 3600, minute |-> (rest % 3600) \div 60,
        second |-> rest % 60, ms |-> t.ms]

\* t.toISOString(): YYYY-MM-DDTHH:mm:ss.sssZ in UTC, held by its fields.
toISOString(t) == Fields(t, 0)

\* Date.parse of such a string: the instant it denotes.
DateParse(ts) ==
    [sec |-> DaysFromCivil(ts.year, ts.month, ts.day) * 86400
               + ts.hour * 3600 + ts.minute * 60 + ts.second,
     ms |-> ts.ms]

\* The local-time getters of Date, for a host whose local time is UTC plus
\* zone minutes; getMonth counts from 0.
getDate(t, zone) == Fields(t, zone).day
getMonth(t, zone) == Fields(t, zone).month - 1
getHours(t, zone) == Fields(t, zone).hour
getMinutes(t, zone) == Fields(t, zone).minute

\* ------------------------------------------------ simulation engine: series

\* api.ts:246
TOTAL_POINTS == 288

\* One call of the closure seededRandom returns (api.ts:251): the next
\* state s * 16807 % 2147483647.  The product is split by 127773 and 2836,
\* the quotient and remainder of 2147483647 by 16807, so that no
\* intermediate value leaves 32 bits; the result is the same.
NextRandom(s) ==
    LET x == 16807 * (s % 127773) - 2836 * (s \div 127773)
    IN IF x > 0 THEN x ELSE x + 2147483647

RECURSIVE RandomStates(_, _)
\* The states of the generator after each of n consecutive calls from s; the
\* number a call returns is (state - 1) / 2147483646.
RandomStates(s, n) ==
    IF n = 0 THEN <<>>
    ELSE <<NextRandom(s)>> \o RandomStates(NextRandom(s), n - 1)

SlotTimeOffByOne(now, i) == Earlier(now, (TOTAL_POINTS - i) * 5 * 60)

\* new Date(now.getTime() - (TOTAL_POINTS - 1 - i) * 5 * 60_000)
\* (api.ts:276, 296, 313, 335)
SlotTime(now, i) == Earlier(now, (TOTAL_POINTS - 1 - i) * 5 * 60)

RECURSIVE SimulatedPoints(_, _, _, _, _, _)
\* The points pushed by turns i to i + n - 1 of the loop of a generator
\* (api.ts:275-284, 295-304, 312-321, 334-344), s being the state of its rng
\* before turn i: the points of the first half of the turns, then those of
\* the second half from the state the first half left.  A point is held as
\* its timestamp and what its numbers are computed from: the hour of the
\* slot, in minutes of the local day, and the states of the rng of the draws
\* made in its turn.
SimulatedPoints(now, zone, draws, i, n, s) ==
    IF n = 0 THEN <<>>
    ELSE IF n = 1
    THEN LET t == SlotTime(now, i)
         IN <<[timestamp |-> toISOString(t),
               hour |-> getHours(t, zone) * 60 + getMinutes(t, zone),
               rng |-> RandomStates(s, draws)]>>
    ELSE LET h == n \div 2
             first == SimulatedPoints(now, zone, draws, i, h, s)
         IN first \o SimulatedPoints(now, zone, draws, i + h, n - h,
                                     first[h].rng[draws])

\* One closure, made by the first call, serves every later call.
SharedSeed(heap, seed) ==
    IF heap = <<>> THEN [heap |-> <<seed>>, rng |-> 1]
    ELSE [heap |-> heap, rng |-> 1]

\* seededRandom(seed) (api.ts:248-254): a new closure, whose variable s
\* starts as seed.  heap holds the variable s of every closure made so far,
\* in the order they were made; rng is the closure returned, by its place.
seededRandom(heap, seed) ==
    [heap |-> Append(heap, seed), rng |-> Len(heap) + 1]

SimulatedSeriesSeededByHour(heap, now, zone, multiplier, draws) ==
    LET made == seededRandom(heap, getDate(now, zone) * multiplier
                                     + getMonth(now, zone) + 1
                                     + getHours(now, zone))
        points == SimulatedPoints(now, zone, draws, 0, TOTAL_POINTS,
                                  made.heap[made.rng])
    IN [points |-> points,
        heap |-> [made.heap EXCEPT
                    ![made.rng] = points[TOTAL_POINTS].rng[draws]]]

\* A generator called with now on a host of time zone `zone`: multiplier is
\* the factor of the day in its seed (api.ts:272, 292, 309, 330) and draws
\* the number of calls of rng() in one turn of its loop.  The generator makes
\* its closure, whose s every call of rng() reads and writes; it returns its
\* points and leaves the closure at the state of the last draw.
SimulatedSeries(heap, now, zone, multiplier, draws) ==
    LET made == seededRandom(heap, getDate(now, zone) * multiplier
                                     + getMonth(now, zone) + 1)
        points == SimulatedPoints(now, zone, draws, 0, TOTAL_POINTS,
                                  made.heap[made.rng])
    IN [points |-> points,
        heap |-> [made.heap EXCEPT
                    ![made.rng] = points[TOTAL_POINTS].rng[draws]]]

\* getGridSnapshot(now) is called and returns (api.ts:348-363): the four
\* generators run one after the other, each from the heap the one before
\* left; the snapshot is appended to output.
GridSnapshotAt(now, zone) ==
    \E carbon \in {SimulatedSeries(closures, now, zone, 1000, 1)} :
    \E generation \in {SimulatedSeries(carbon.heap, now, zone, 2000, 5)} :
    \E demand \in {SimulatedSeries(generation.heap, now, zone, 3000, 2)} :
    \E interchange \in {SimulatedSeries(demand.heap, now, zone, 4000, 11)} :
       LET series == [carbon |-> carbon.points,
                      generation |-> generation.points,
                      demand |-> demand.points,
                      interchange |-> interchange.points]
       IN /\ output' = Append(output,
                [latest |-> [k \in Metrics |-> series[k][TOTAL_POINTS]],
                 timeSeries |-> series])
          /\ closures' = interchange.heap

\* ------------------------------------------------- live data client: content

\* json.data.map(...) of fetchCarbonSignal (api.ts:44-47) for json the
\* array json.data; the number d.value is held in thousandths.
CarbonPoints(json) ==
    [i \in 1..Len(json) |->
       [timestamp |-> json[i].point_time, value |-> Round(json[i].value)]]

PaddedCarbonUnlessEmpty(carbon, generation) ==
    IF Len(carbon) > 0 THEN carbon
    ELSE [i \in 1..Len(generation) |->
            [timestamp |-> generation[i].timestamp, value |-> 50]]

\* carbonSeries with its points (api.ts:175-178).
PaddedCarbon(carbon, generation) ==
    IF Len(carbon) > 1 THEN carbon
    ELSE [i \in 1..Len(generation) |->
            [timestamp |-> generation[i].timestamp,
             value |-> IF Len(carbon) > 0 THEN carbon[1].value ELSE 50]]

FirstOr(series, fallback) ==
    IF Len(series) > 0 THEN series[1] ELSE fallback

\* series[series.length - 1] ?? fallback  (api.ts:182-185); no element of a
\* series is null or undefined.
LastOr(series, fallback) ==
    IF Len(series) > 0 THEN series[Len(series)] ELSE fallback

\* new Date(): the instant of the clock.
Now == [sec |-> clock \div 1000, ms |-> clock % 1000]

FallbackOfZeros ==
    [carbon |-> [timestamp |-> toISOString(Now), value |-> 0],
     generation |-> NewGenerationPoint(""),
     demand |-> NewDemandPoint(""),
     interchange |-> [timestamp |-> "", netExport |-> 0, flows |-> <<>>]]

\* The records that stand for latest when a series is empty (api.ts:182-185).
Fallback ==
    [carbon |-> [timestamp |-> toISOString(Now), value |-> 50],
     generation |-> NewGenerationPoint(""),
     demand |-> NewDemandPoint(""),
     interchange |-> [timestamp |-> "", netExport |-> 0, flows |-> <<>>]]

\* fetchLiveData with its contents, after Promise.all resolved with the four
\* series (api.ts:174-193).
LiveSnapshot(carbon, generation, demand, interchange) ==
    LET series == [carbon |-> PaddedCarbon(carbon, generation),
                   generation |-> generation, demand |-> demand,
                   interchange |-> interchange]
    IN [latest |-> [k \in Metrics |-> LastOr(series[k], Fallback[k])],
        timeSeries |-> series]

\* The body of a 2xx answer of provider B that holds rows: a JSON array is
\* the record of its elements, so that it can be told from the literal null.
Body(rows) == [response |-> [data |-> [array |-> rows]]]

\* A 2xx body that is not JSON, by its text, and what res.json() rejects
\* with on it (api.ts:73).
NotJSON == [text |-> "<html>502 Bad Gateway</html>"]

SyntaxError == [message |-> <<"Unexpected token '<', \"<html>502 \"... is not valid JSON">>]

\* json.response?.data is neither undefined nor null (api.ts:74); a body is
\* a JSON object, the literal null, or not JSON.
HasData(json) ==
    /\ json # null
    /\ "response" \in DOMAIN json
    /\ json.response # null
    /\ "data" \in DOMAIN json.response
    /\ json.response.data # null

\* json.response of the literal null (api.ts:74).
TypeError ==
    [message |-> <<"Cannot read properties of null (reading 'response')">>]

\* json.response?.data ?? []  (api.ts:74), for a body that is an object.
ResponseData(json) ==
    IF HasData(json) THEN json.response.data.array ELSE <<>>

RaisesWithoutData(json) == ~HasData(json)

\* fetchEIA rejects on a 2xx answer (api.ts:73-74): res.json() rejects when
\* the body is not JSON, and reading json.response throws when json is null.
Raises(json) == json = NotJSON \/ json = null

\* ------------------------------------- simulation engine: intensity values

\* smoothNoise(values, window) (api.ts:256-264), each average held as its
\* sum and its count.
smoothNoise(values, window) ==
    [i \in 1..Len(values) |->
       LET js == Max(1, i - window)..Min(Len(values), i + window)
       IN [sum |-> Sum([j \in 1..Len(values) |->
                          IF j \in js THEN values[j] ELSE 0]),
           count |-> Cardinality(js)]]

\* generateCarbonSignal over a window of slots but for the timestamps
\* (api.ts:278-287): draws[i] holds, in thousandths, hourFactor(hour, 3, 4),
\* hourFactor(hour, 16, 3), hourFactor(hour, 8, 2) and the rng() draw of
\* slot i.
generateCarbonSignal(draws) ==
    LET signal(d) == 15 * Scale + (Scale - d.night) * 25 + d.afternoon * 40
                       + (d.morning * 3 * 15) \div 10 + (d.r - 500) * 12
        raw == [i \in 1..Len(draws) |->
                  Round(Max(0, Min(100 * Scale, signal(draws[i]))))]
        smoothed == smoothNoise(raw, 2)
    IN [i \in 1..Len(draws) |->
          [value |-> RoundDiv(smoothed[i].sum, smoothed[i].count)]]

\* ------------------------------------------------------ refresh controller

NoInFlightGuard == FALSE

\* The in-flight guard (useGridData.ts:23).
InFlightGuard == fetching

refreshTryMerges(snapshot) ==
    [data |-> IF data = null THEN snapshot
              ELSE [latest |-> snapshot.latest, timeSeries |-> data.timeSeries],
     lastUpdated |-> clock, isLive |-> TRUE, error |-> null,
     fetching |-> FALSE]

refreshTryKeepsError(snapshot) ==
    [data |-> snapshot, lastUpdated |-> clock, isLive |-> TRUE,
     error |-> error, fetching |-> FALSE]

\* The controller's state after the try block (useGridData.ts:26-30, 36).
refreshTry(snapshot) ==
    [data |-> snapshot, lastUpdated |-> clock, isLive |-> TRUE,
     error |-> null, fetching |-> FALSE]

refreshCatchStaysFetching(err) ==
    [data |-> data, lastUpdated |-> lastUpdated, isLive |-> FALSE,
     error |-> err, fetching |-> fetching]

refreshCatchClears(err) ==
    [data |-> null, lastUpdated |-> lastUpdated, isLive |-> FALSE,
     error |-> err, fetching |-> FALSE]

refreshCatchStaysLive(err) ==
    [data |-> data, lastUpdated |-> lastUpdated, isLive |-> isLive,
     error |-> err, fetching |-> FALSE]

\* The controller's state after the catch block (useGridData.ts:31-36).
refreshCatch(err) ==
    [data |-> data, lastUpdated |-> lastUpdated, isLive |-> FALSE,
     error |-> err, fetching |-> FALSE]

Apply(r) ==
    /\ data' = r.data
    /\ lastUpdated' = r.lastUpdated
    /\ isLive' = r.isLive
    /\ error' = r.error
    /\ fetching' = r.fetching

\* The sub-fetches of a cycle once sub-fetch k has rejected its Promise.all:
\* k keeps its error and the fulfilled ones their values; a login request
\* still pending will write the token cache when it is answered; the other
\* pending ones are detached.
AfterRejection(subs, k) ==
    [m \in Metrics |->
        IF m = k \/ subs[m].st \in {"login", "ok"}
        THEN subs[m]
        ELSE DetachedSub]

\* Sub-fetch k of cycle c moves to s: Promise.all sees it, and when that
\* settles the assembly the continuation of refresh runs in the same turn.
Settle(c, k, s) ==
    LET subs == [sub[c] EXCEPT ![k] = s]
        p == PromiseAll(asm[c], subs, k)
    IN /\ sub' = [sub EXCEPT ![c] =
                    IF asm[c].st = "rejected"
                    THEN [sub[c] EXCEPT ![k] = DetachedSub]
                    ELSE IF p.st = "rejected"
                    THEN AfterRejection(subs, k)
                    ELSE subs]
       /\ asm' = [asm EXCEPT ![c] = p]
       /\ IF asm[c].st = "pending" /\ p.st = "fulfilled"
          THEN Apply(refreshTry(p.value))
          ELSE IF asm[c].st = "pending" /\ p.st = "rejected"
          THEN Apply(refreshCatch(p.err))
          ELSE UNCHANGED ctl

\* What is left of the promises of cycle c when a later assembly starts.  A
\* settled assembly and its sub-fetches are unreachable once refresh has
\* returned: only its outcome is remembered, and a login request still
\* pending, which writes the token cache when it is answered.
Collected(c) ==
    IF asm[c].st \in {"fulfilled", "rejected"}
    THEN [asm |-> [st |-> asm[c].st, err |-> null, value |-> null],
          sub |-> [k \in Metrics |->
                     IF sub[c][k].st = "login" THEN sub[c][k] ELSE DetachedSub],
          hist |-> IdleHist]
    ELSE [asm |-> asm[c], sub |-> sub[c], hist |-> hist[c]]

\* refresh() (useGridData.ts:15-38), up to its first suspension.
refresh ==
    IF DEMO_MODE
    THEN /\ cycles < MaxCycles
         /\ cycles' = cycles + 1
         /\ data' = getGridSnapshot(cycles + 1)
         /\ lastUpdated' = clock
         /\ UNCHANGED <<isLive, error, fetching, asm, sub, hist, droppedTick>>
    ELSE IF InFlightGuard
    THEN /\ droppedTick' = TRUE
         /\ UNCHANGED <<ctl, cycles, asm, sub, hist>>
    ELSE /\ cycles < MaxCycles
         /\ cycles' = cycles + 1
         /\ fetching' = TRUE
         /\ asm' = [c \in Cycles |->
                       IF c = cycles + 1
                       THEN [st |-> "pending", err |-> null, value |-> null]
                       ELSE Collected(c).asm]
         /\ sub' = [c \in Cycles |->
                       IF c = cycles + 1
                       THEN [k \in Metrics |->
                               IF k = "carbon" THEN fetchCarbonSignal
                                               ELSE fetchEIA]
                       ELSE Collected(c).sub]
         /\ hist' = [c \in Cycles |->
                       IF c = cycles + 1
                       THEN [settled |-> {d \in Cycles :
                                       asm[d].st \in {"fulfilled", "rejected"}},
                             held |-> data,
                             login |-> fetchCarbonSignal.st = "login"]
                       ELSE Collected(c).hist]
         /\ UNCHANGED <<data, lastUpdated, isLive, error, droppedTick>>

\* ------------------------------------------------------------------ actions

\* No pure function is being applied.
PureIdle ==
    /\ stage = "off"
    /\ genRows = <<>>
    /\ genPoints = <<>>
    /\ simDraw = [hf |-> <<>>, r |-> <<>>]
    /\ simPoint = <<>>
    /\ closures = <<>>
    /\ input = <<>>
    /\ output = <<>>

\* useGridData's state at its first render, and api.ts's at module load.
ControllerInit ==
    /\ DEMO_MODE \in BOOLEAN
    /\ mounted = "init"
    /\ clock = 0
    /\ data = null
    /\ lastUpdated = 0
    /\ isLive = TRUE
    /\ error = null
    /\ fetching = FALSE
    /\ wattTimeToken = NullToken
    /\ tokenExpiry = 0
    /\ cycles = 0
    /\ asm = [c \in Cycles |-> IdleAsm]
    /\ sub = [c \in Cycles |-> [k \in Metrics |-> IdleSub]]
    /\ hist = [c \in Cycles |-> IdleHist]
    /\ droppedTick = FALSE

Init == ControllerInit /\ PureIdle

\* The effect runs (useGridData.ts:40-43): refresh() and setInterval.
Mount ==
    /\ mounted = "init"
    /\ mounted' = "mounted"
    /\ refresh
    /\ UNCHANGED <<pure, DEMO_MODE, clock, tok>>

TickWithoutClear ==
    /\ mounted \in {"mounted", "unmounted"}
    /\ refresh
    /\ UNCHANGED <<pure, DEMO_MODE, mounted, clock, tok>>

\* The interval timer fires (useGridData.ts:42).
Tick ==
    /\ mounted = "mounted"
    /\ refresh
    /\ UNCHANGED <<pure, DEMO_MODE, mounted, clock, tok>>

\* The effect's cleanup (useGridData.ts:43): clearInterval.
Unmount ==
    /\ mounted = "mounted"
    /\ mounted' = "unmounted"
    /\ UNCHANGED <<pure, DEMO_MODE, clock, ctl, tok, cycles, asm, sub, hist,
                   droppedTick>>

\* Time passes.  The only test of the clock is the token cache's, so the
\* model looks at the clock once per token lifetime: a later instant is
\* before, at or after the expiry of a token stored at an earlier one.
Elapse ==
    /\ clock < MaxElapse * TOKEN_LIFETIME
    /\ clock' = clock + TOKEN_LIFETIME
    /\ UNCHANGED <<pure, DEMO_MODE, mounted, ctl, tok, cycles, asm, sub, hist,
                   droppedTick>>

\* The login endpoint answers 2xx with {token: t} (api.ts:28-32), and
\* fetchCarbonSignal sends the signal request with it (api.ts:36-40).
LoginOk(c, t) ==
    /\ sub[c]["carbon"].st = "login"
    /\ wattTimeToken' = t
    /\ tokenExpiry' = clock + TOKEN_LIFETIME
    /\ Settle(c, "carbon", [st |-> "signal", err |-> null, tok |-> t,
                            res |-> null])
    /\ UNCHANGED <<pure, DEMO_MODE, mounted, clock, cycles, hist, droppedTick>>

\* The login endpoint answers a non-success status (api.ts:28).
LoginFail(c, status) ==
    /\ sub[c]["carbon"].st = "login"
    /\ Settle(c, "carbon", [sub[c]["carbon"] EXCEPT
                              !.st = "failed", !.err = AuthError(status)])
    /\ UNCHANGED <<pure, DEMO_MODE, mounted, clock, tok, cycles, hist, droppedTick>>

\* The signal endpoint answers 2xx with its points (api.ts:42-47).
SignalOk(c) ==
    /\ sub[c]["carbon"].st = "signal"
    /\ Settle(c, "carbon", [sub[c]["carbon"] EXCEPT
                              !.st = "ok", !.tok = NullToken,
                              !.res = Series(c, "carbon")])
    /\ UNCHANGED <<pure, DEMO_MODE, mounted, clock, tok, cycles, hist, droppedTick>>

\* The signal endpoint answers a non-success status (api.ts:41).
SignalFail(c, status) ==
    /\ sub[c]["carbon"].st = "signal"
    /\ Settle(c, "carbon", [sub[c]["carbon"] EXCEPT
                              !.st = "failed", !.tok = NullToken,
                              !.err = SignalError(status)])
    /\ UNCHANGED <<pure, DEMO_MODE, mounted, clock, tok, cycles, hist, droppedTick>>

\* Provider B answers 2xx and the rows are pivoted (api.ts:73-74 and the
\* pivot of the metric).
EIAOk(c, k) ==
    /\ sub[c][k].st = "pending"
    /\ Settle(c, k, [sub[c][k] EXCEPT !.st = "ok", !.res = Series(c, k)])
    /\ UNCHANGED <<pure, DEMO_MODE, mounted, clock, tok, cycles, hist, droppedTick>>

\* Provider B answers a non-success status (api.ts:72).
EIAFail(c, k, status) ==
    /\ sub[c][k].st = "pending"
    /\ Settle(c, k, [sub[c][k] EXCEPT
                       !.st = "failed", !.err = EIAError(k, status)])
    /\ UNCHANGED <<pure, DEMO_MODE, mounted, clock, tok, cycles, hist, droppedTick>>

\* A request of sub-fetch k is rejected by the network: fetch() rejects.
FetchRejected(c, k) ==
    /\ sub[c][k].st \in {"login", "signal", "pending"}
    /\ Settle(c, k, [sub[c][k] EXCEPT !.st = "failed", !.tok = NullToken,
                                      !.err = NetworkError])
    /\ UNCHANGED <<pure, DEMO_MODE, mounted, clock, tok, cycles, hist, droppedTick>>

Next ==
    \/ Mount
    \/ Tick
    \/ Unmount
    \/ Elapse
    \/ \E c \in Cycles, t \in Tokens : LoginOk(c, t)
    \/ \E c \in Cycles, s \in FailStatuses : LoginFail(c, s)
    \/ \E c \in Cycles : SignalOk(c)
    \/ \E c \in Cycles, s \in FailStatuses : SignalFail(c, s)
    \/ \E c \in Cycles, k \in EIAMetrics : EIAOk(c, k)
    \/ \E c \in Cycles, k \in EIAMetrics, s \in FailStatuses : EIAFail(c, k, s)
    \/ \E c \in Cycles, k \in Metrics : FetchRejected(c, k)

Spec == Init /\ [][Next]_vars

\* A request is answered, or rejected by the network.
Answer ==
    \/ \E c \in Cycles, t \in Tokens : LoginOk(c, t)
    \/ \E c \in Cycles, s \in FailStatuses : LoginFail(c, s)
    \/ \E c \in Cycles : SignalOk(c)
    \/ \E c \in Cycles, s \in FailStatuses : SignalFail(c, s)
    \/ \E c \in Cycles, k \in EIAMetrics : EIAOk(c, k)
    \/ \E c \in Cycles, k \in EIAMetrics, s \in FailStatuses : EIAFail(c, k, s)
    \/ \E c \in Cycles, k \in Metrics : FetchRejected(c, k)

\* The controller with a timer that keeps firing while the view is mounted
\* (setInterval, useGridData.ts:42) and a network that answers every
\* request in the end.
SpecFair == Spec /\ WF_vars(Tick) /\ WF_vars(Answer)

TypeOK ==
    /\ DEMO_MODE \in BOOLEAN
    /\ mounted \in {"init", "mounted", "unmounted"}
    /\ fetching \in BOOLEAN
    /\ isLive \in BOOLEAN
    /\ cycles \in 0..MaxCycles

\* ------------------------------------- generation: inputs and specification

\* The values and fuel types of the rows drawn: a reading, a negative one,
\* an unparseable one; two mapped fuels, an unmapped one, and two names of
\* properties every object inherits.
RowValues == {"250", "-40", "N/A"}

FuelTypes == {"WAT", "SUN", "COL", "constructor", "__proto__"}

GenRowSet ==
    [period : RowPeriods, value : RowValues,
     fueltype : FuelTypes]

\* hourFactor is exp(-d^2 / (2 spread^2)), in (0, 1]; rng() is in [0, 1).
FactorValues == {0, 500, 1000}

DrawValues == {0, 500, 999}

SimDraws ==
    [hf : [{"hydro", "wind", "gas", "solar"} -> FactorValues],
     r : [{"hydro", "wind", "gas", "solar", "other"} -> DrawValues]]

GenerationInit ==
    /\ ControllerInit
    /\ DEMO_MODE
    /\ genPoints = <<>>
    /\ simPoint = <<>>
    /\ closures = <<>>
    /\ input = <<>>
    /\ output = <<>>
    /\ \/ /\ stage = "rows"
          /\ genRows \in UNION {[1..n -> GenRowSet] : n \in 0..MaxRows}
          /\ simDraw = [hf |-> <<>>, r |-> <<>>]
       \/ /\ stage = "draws"
          /\ genRows = <<>>
          /\ simDraw \in SimDraws

\* fetchGeneration pivots the rows of the response.
PivotGeneration ==
    /\ stage = "rows"
    /\ stage' = "pivoted"
    /\ genPoints' = fetchGeneration(genRows)
    /\ UNCHANGED <<controller, genRows, simDraw, simPoint, closures, input,
                   output>>

\* generateGenerationMix pushes one point.
SimulateGeneration ==
    /\ stage = "draws"
    /\ stage' = "simulated"
    /\ simPoint' = generateGenerationMix(simDraw.hf, simDraw.r)
    /\ UNCHANGED <<controller, genRows, genPoints, simDraw, closures, input,
                   output>>

GenerationNext ==
    \/ PivotGeneration
    \/ SimulateGeneration

SpecGeneration == GenerationInit /\ [][GenerationNext]_vars

\* ----------------------------------------- pivots: inputs and specification

\* A row whose value field is absent: parseInt(undefined) reads the string
\* "undefined".
Missing == "undefined"

PivotGenRowSet ==
    [period : RowPeriods, value : RowValues, fueltype : {"WAT", "COL"}]

\* type D is demand, DF the day-ahead forecast; TI is another category.
DemandRowSet ==
    [period : RowPeriods, value : RowValues, type : {"D", "DF", "TI"}]

\* Balancing authorities next to the region.
Neighbours ==
    <<"CISO", "PACW", "PACE", "PSEI", "CHPD", "AVA", "BCHA", "GCPD", "IPCO",
      "LDWP", "NEVP", "NWMT">>

InterchangeRowSet ==
    [period : RowPeriods, value : {"250", "-300", "N/A", Missing},
     toba : {Neighbours[1], Neighbours[2]}]

\* The responses of up to MaxRows rows over a set of rows.
Responses(rowSet) == UNION {[1..n -> rowSet] : n \in 0..MaxRows}

\* The responses of one period with one row for each of n neighbours.
WideResponses ==
    UNION {{[i \in 1..n |-> [period |-> Periods[1], value |-> v[i],
                              toba |-> Neighbours[i]]] :
              v \in [1..n -> {"-300", "40"}]} :
           n \in 0..Min(MaxNeighbours, Len(Neighbours))}

\* The hour factor and the eleven draws of one simulated interchange point.
InterchangeDraws ==
    [hf : FactorValues, r : {<<r1>> \o d : r1 \in DrawValues,
                                           d \in [1..10 -> {0, 999}]}]

PivotInit ==
    /\ ControllerInit
    /\ ~DEMO_MODE
    /\ genRows = <<>>
    /\ genPoints = <<>>
    /\ simDraw = [hf |-> <<>>, r |-> <<>>]
    /\ simPoint = <<>>
    /\ closures = <<>>
    /\ output = <<>>
    /\ \/ stage = "fetchGeneration" /\ input \in Responses(PivotGenRowSet)
       \/ stage = "fetchDemand" /\ input \in Responses(DemandRowSet)
       \/ stage = "fetchInterchange"
             /\ input \in Responses(InterchangeRowSet) \cup WideResponses
       \/ stage = "generateInterchangeData" /\ input \in InterchangeDraws

Returned(fn) == fn \o ":returned"

\* fetchGeneration, fetchDemand or fetchInterchange pivots the rows.
PivotRows ==
    /\ stage \in {"fetchGeneration", "fetchDemand", "fetchInterchange"}
    /\ stage' = Returned(stage)
    /\ output' = CASE stage = "fetchGeneration" -> fetchGeneration(input)
                   [] stage = "fetchDemand" -> fetchDemand(input)
                   [] stage = "fetchInterchange" -> fetchInterchange(input)
    /\ UNCHANGED <<controller, genRows, genPoints, simDraw, simPoint, closures,
                   input>>

\* generateInterchangeData pushes one point.
SimulateInterchange ==
    /\ stage = "generateInterchangeData"
    /\ stage' = Returned(stage)
    /\ output' = generateInterchangeData(input.hf, input.r)
    /\ UNCHANGED <<controller, genRows, genPoints, simDraw, simPoint, closures,
                   input>>

\* InterchangePanel renders with current = latest.interchange of the held
\* snapshot, the last point of its interchange series when there is one:
\* current.flows.sort(...) (InterchangePanel.tsx:76) sorts that point's
\* array in place.  output is the interchange series of the snapshot (live)
\* or its last point (simulated).
RenderInterchangePanel ==
    /\ stage \in {Returned("fetchInterchange"),
                  Returned("generateInterchangeData")}
    /\ stage' = "InterchangePanel:rendered"
    /\ output' = IF stage = Returned("generateInterchangeData")
                 THEN [output EXCEPT !.flows = SortByMagnitude(@)]
                 ELSE IF Len(output) = 0 THEN output
                 ELSE [output EXCEPT ![Len(output)].flows = SortByMagnitude(@)]
    /\ UNCHANGED <<controller, genRows, genPoints, simDraw, simPoint, closures,
                   input>>

PivotNext ==
    \/ PivotRows
    \/ SimulateInterchange
    \/ RenderInterchangePanel

SpecPivot == PivotInit /\ [][PivotNext]_vars

\* -------------------------------------- snapshots: inputs and specification

\* The responses of the intensity provider: up to MaxPoints points, in any
\* order, of a percentile, a fraction, and numbers off the scale.
CarbonResponses ==
    UNION {[1..n -> [point_time : {Timestamp(Periods[1]), Timestamp(Periods[2])},
                     value : {42000, 41500, 150000, -5000}]] :
           n \in 0..MaxPoints}

\* The generation responses of n periods, latest first, as sorted upstream.
StampResponses ==
    {[i \in 1..n |-> [period |-> Periods[n + 1 - i], value |-> "250",
                      fueltype |-> "WAT"]] :
       n \in 0..Min(MaxStamps, Len(Periods))}

DemandResponses ==
    {<<>>,
     <<[period |-> Periods[1], value |-> "250", type |-> "D"]>>,
     <<[period |-> Periods[2], value |-> "-40", type |-> "DF"],
       [period |-> Periods[1], value |-> "250", type |-> "D"]>>}

InterchangeResponses ==
    {<<>>,
     <<[period |-> Periods[1], value |-> "250", toba |-> Neighbours[1]]>>,
     <<[period |-> Periods[2], value |-> "-300", toba |-> Neighbours[2]],
       [period |-> Periods[1], value |-> "250", toba |-> Neighbours[1]]>>}

\* Bodies of provider B without response.data: an error document, a
\* response that holds no data field, and one whose data is null.
ErrorDocument == [error |-> "API_KEY_INVALID"]

NoDataResponse == [response |-> [total |-> "0"]]

NullDataResponse == [response |-> [data |-> null]]

\* The hour factors and the draw of a slot of simulated intensity.
CarbonDraws ==
    {[night |-> hf[1], afternoon |-> hf[2], morning |-> hf[3], r |-> r] :
       hf \in {<<1000, 0, 0>>, <<0, 1000, 0>>, <<0, 0, 1000>>, <<500, 500, 500>>},
       r \in {0, 999}}

\* Instants: the last and first minutes of a leap day, of a year, two times
\* of one day, a noon, and the epoch.
Instants ==
    {[sec |-> 1709251087, ms |-> 250], [sec |-> 1709251320, ms |-> 0],
     [sec |-> 1704067199, ms |-> 999], [sec |-> 1704067200, ms |-> 0],
     [sec |-> 1721044800, ms |-> 0], [sec |-> 1721068200, ms |-> 0],
     [sec |-> 1714564800, ms |-> 0], [sec |-> 0, ms |-> 0]}

\* Local time minus UTC, in minutes, of the hosts.
Zones == {-480, 0, 330}

\* The bodies the four requests of a fetchLiveData are answered with, the
\* same at every call of a run: each metric's body ranges over its responses
\* beside usual bodies of the other metrics, and the intensity body beside
\* no generation rows as well.
UsualBodies ==
    [carbon |-> <<[point_time |-> Timestamp(Periods[1]), value |-> 42000]>>,
     generation |-> Body([i \in 1..5 |->
                            [period |-> Periods[6 - i], value |-> "250",
                             fueltype |-> "WAT"]]),
     demand |-> Body(<<[period |-> Periods[2], value |-> "-40", type |-> "DF"],
                       [period |-> Periods[1], value |-> "250", type |-> "D"]>>),
     interchange |-> Body(<<[period |-> Periods[2], value |-> "-300",
                             toba |-> Neighbours[2]],
                            [period |-> Periods[1], value |-> "250",
                             toba |-> Neighbours[1]]>>)]

LiveInputs ==
    {[UsualBodies EXCEPT !.carbon = c, !.generation = g] :
       c \in CarbonResponses, g \in {UsualBodies.generation, Body(<<>>)}}
    \cup {[UsualBodies EXCEPT !.carbon = c, !.generation = g] :
            c \in {UsualBodies.carbon, <<>>},
            g \in {Body(r) : r \in StampResponses}
                     \cup {ErrorDocument, NoDataResponse, NullDataResponse,
                           null, NotJSON}}
    \cup {[UsualBodies EXCEPT !.demand = d] :
            d \in {Body(r) : r \in DemandResponses}
                     \cup {NoDataResponse, NullDataResponse}}
    \cup {[UsualBodies EXCEPT !.interchange = x] :
            x \in {Body(r) : r \in InterchangeResponses}
                     \cup {ErrorDocument, NotJSON}}

SnapshotInit ==
    /\ ControllerInit
    /\ genRows = <<>>
    /\ genPoints = <<>>
    /\ simDraw = [hf |-> <<>>, r |-> <<>>]
    /\ simPoint = <<>>
    /\ closures = <<>>
    /\ output = <<>>
    /\ \/ /\ stage = "fetchLiveData"
          /\ ~DEMO_MODE
          /\ input \in LiveInputs
       \/ /\ stage = "generateCarbonSignal"
          /\ DEMO_MODE
          /\ input \in UNION {[1..n -> CarbonDraws] : n \in 0..MaxWindow}
       \/ /\ stage = "getGridSnapshot"
          /\ DEMO_MODE
          /\ input \in [now : Instants, zone : Zones]

\* The hook around fetchLiveData: the effect runs refresh, which sets the
\* guard and calls fetchLiveData (useGridData.ts:23-26, 40-42); the timer
\* fires, which starts the next call once the last one has settled; the view
\* unmounts; time passes.  stage tells how the last call that settled did.
AroundFetchLiveData ==
    /\ stage \in {"fetchLiveData", Returned("fetchLiveData"),
                  "fetchLiveData:rejected"}
    /\ Mount \/ Tick \/ Unmount \/ Elapse

\* Sub-fetch k of call c of fetchLiveData moves to s, res being the series it
\* resolved with.  Promise.all sees it (api.ts:167-172); when all four have
\* resolved fetchLiveData assembles the snapshot (api.ts:174-193), when one
\* rejects it rejects with that error; the continuation of refresh runs in
\* the same turn (useGridData.ts:26-36).  output is what fetchLiveData
\* returned or threw.
LiveSettle(c, k, s) ==
    LET subs == [sub[c] EXCEPT ![k] = s]
        p == IF asm[c].st # "pending" THEN asm[c]
             ELSE IF s.st = "failed"
             THEN [st |-> "rejected", err |-> s.err, value |-> null]
             ELSE IF \A m \in Metrics : subs[m].st = "ok"
             THEN [st |-> "fulfilled", err |-> null,
                   value |-> LiveSnapshot(subs["carbon"].res,
                                          subs["generation"].res,
                                          subs["demand"].res,
                                          subs["interchange"].res)]
             ELSE asm[c]
    IN /\ stage \in {"fetchLiveData", Returned("fetchLiveData"),
                     "fetchLiveData:rejected"}
       /\ sub' = [sub EXCEPT ![c] =
                    IF asm[c].st = "rejected"
                    THEN [sub[c] EXCEPT ![k] = DetachedSub]
                    ELSE IF p.st = "rejected"
                    THEN AfterRejection(subs, k)
                    ELSE subs]
       /\ asm' = [asm EXCEPT ![c] = p]
       /\ IF asm[c].st = "pending" /\ p.st = "fulfilled"
          THEN /\ Apply(refreshTry(p.value))
               /\ stage' = Returned("fetchLiveData")
               /\ output' = p.value
          ELSE IF asm[c].st = "pending" /\ p.st = "rejected"
          THEN /\ Apply(refreshCatch(p.err))
               /\ stage' = "fetchLiveData:rejected"
               /\ output' = p.err
          ELSE UNCHANGED <<ctl, stage, output>>
       /\ UNCHANGED <<DEMO_MODE, mounted, clock, cycles, hist, droppedTick,
                      genRows, genPoints, simDraw, simPoint, closures, input>>

\* The login endpoint answers {token: t}: the token cache is written
\* (api.ts:29-32) and the signal request goes out (api.ts:36-40).
LiveLoginOk(c, t) ==
    /\ sub[c]["carbon"].st = "login"
    /\ wattTimeToken' = t
    /\ tokenExpiry' = clock + TOKEN_LIFETIME
    /\ LiveSettle(c, "carbon", [st |-> "signal", err |-> null, tok |-> t,
                                res |-> null])

\* The signal endpoint answers input.carbon as its data (api.ts:42-47).
LiveSignalOk(c) ==
    /\ sub[c]["carbon"].st = "signal"
    /\ LiveSettle(c, "carbon", [st |-> "ok", err |-> null, tok |-> NullToken,
                                res |-> CarbonPoints(input.carbon)])
    /\ UNCHANGED tok

\* Provider B answers input[k] as the body of metric k: fetchEIA returns its
\* rows or throws (api.ts:73-74), and the rows are pivoted (api.ts:80-105,
\* 111-128, 135-163).
LiveEIAOk(c, k) ==
    /\ sub[c][k].st = "pending"
    /\ IF Raises(input[k])
       THEN LiveSettle(c, k, [sub[c][k] EXCEPT
                                !.st = "failed",
                                !.err = IF input[k] = NotJSON THEN SyntaxError
                                        ELSE TypeError])
       ELSE LiveSettle(c, k, [sub[c][k] EXCEPT
              !.st = "ok",
              !.res = CASE k = "generation" ->
                             fetchGeneration(ResponseData(input[k]))
                        [] k = "demand" ->
                             fetchDemand(ResponseData(input[k]))
                        [] k = "interchange" ->
                             fetchInterchange(ResponseData(input[k]))])
    /\ UNCHANGED tok

\* generateCarbonSignal computes the values of a window of slots.
SimulateCarbon ==
    /\ stage = "generateCarbonSignal"
    /\ stage' = Returned(stage)
    /\ output' = generateCarbonSignal(input)
    /\ UNCHANGED <<controller, genRows, genPoints, simDraw, simPoint, closures,
                   input>>

\* getGridSnapshot is called with the instant now, once more.
CallGetGridSnapshot ==
    /\ stage \in {"getGridSnapshot", Returned("getGridSnapshot")}
    /\ Len(output) < MaxCalls
    /\ stage' = Returned("getGridSnapshot")
    /\ GridSnapshotAt(input.now, input.zone)
    /\ UNCHANGED <<controller, genRows, genPoints, simDraw, simPoint, input>>

SnapshotNext ==
    \/ AroundFetchLiveData
    \/ \E c \in Cycles, t \in Tokens : LiveLoginOk(c, t)
    \/ \E c \in Cycles : LiveSignalOk(c)
    \/ \E c \in Cycles, k \in EIAMetrics : LiveEIAOk(c, k)
    \/ SimulateCarbon
    \/ CallGetGridSnapshot

SpecSnapshot == SnapshotInit /\ [][SnapshotNext]_vars

\* ------------------------------- two instants: inputs and specification

\* Instants: a noon, the evening of its day, the noon of that day a year
\* before, an hour into the next day, and a noon of another month.
DayInstants ==
    {[sec |-> 1721044800, ms |-> 0], [sec |-> 1721068200, ms |-> 0],
     [sec |-> 1689422400, ms |-> 0], [sec |-> 1721091600, ms |-> 0],
     [sec |-> 1714564800, ms |-> 0]}

TwoInstantsInit ==
    /\ ControllerInit
    /\ DEMO_MODE
    /\ genRows = <<>>
    /\ genPoints = <<>>
    /\ simDraw = [hf |-> <<>>, r |-> <<>>]
    /\ simPoint = <<>>
    /\ closures = <<>>
    /\ output = <<>>
    /\ stage = "getGridSnapshot"
    /\ input \in {i \in [now : DayInstants, later : DayInstants, zone : Zones] :
                    i.now.sec <= i.later.sec}

\* getGridSnapshot is called with the instant now.
CallNow ==
    /\ stage = "getGridSnapshot"
    /\ stage' = "getGridSnapshot:now"
    /\ GridSnapshotAt(input.now, input.zone)
    /\ UNCHANGED <<controller, genRows, genPoints, simDraw, simPoint, input>>

\* getGridSnapshot is called again, with the instant later.
CallLater ==
    /\ stage = "getGridSnapshot:now"
    /\ stage' = "getGridSnapshot:later"
    /\ GridSnapshotAt(input.later, input.zone)
    /\ UNCHANGED <<controller, genRows, genPoints, simDraw, simPoint, input>>

TwoInstantsNext ==
    \/ CallNow
    \/ CallLater

SpecTwoInstants == TwoInstantsInit /\ [][TwoInstantsNext]_vars

\* ------------------------------------------------------ generation properties

WellFormedGeneration(p) ==
    /\ p.total = p.hydro + p.wind + p.gas + p.solar + p.other
    /\ p.hydro >= 0 /\ p.wind >= 0 /\ p.gas >= 0 /\ p.solar >= 0
    /\ p.other >= 0

\* C10: every GenerationPoint, of the simulation and of the live pivot over
\* any rows, has total = hydro + wind + gas + solar + other and its five
\* components >= 0.
C10_GenerationWellFormed ==
    /\ stage = "pivoted" =>
          \A i \in 1..Len(genPoints) : WellFormedGeneration(genPoints[i])
    /\ stage = "simulated" => WellFormedGeneration(simPoint)

\* A response with a negative, an unparseable and a valid value, for a
\* mapped and an unmapped fuel, has been pivoted into one point.
C10_Witness ==
    /\ stage = "pivoted"
    /\ Len(genPoints) = 1
    /\ genPoints[1].total = 250
    /\ \E i \in 1..Len(genRows) : genRows[i].value = "-40"
                                   /\ genRows[i].fueltype = "WAT"
    /\ \E i \in 1..Len(genRows) : genRows[i].value = "N/A"
    /\ \E i \in 1..Len(genRows) : genRows[i].fueltype = "COL"

\* --------------------------------------------- refresh controller properties

\* The assemblies whose fetchLiveData promise has not settled.
InFlight == {c \in Cycles : asm[c].st = "pending"}

\* The assemblies that have settled, by success or by failure.
Settled == {c \in Cycles : asm[c].st \in {"fulfilled", "rejected"}}

\* The refresh cycle a snapshot's generation series comes from.
Origin(snapshot) ==
    CHOOSE c \in Cycles : snapshot.timeSeries["generation"].from = {c}

\* Every part of the snapshot was produced by cycle c, each in its place.
WholeOf(snapshot, c) ==
    \A k \in Metrics :
        /\ snapshot.timeSeries[k] = [from |-> {c}, metric |-> k]
        /\ snapshot.latest[k] = [from |-> {c}, metric |-> k]

\* Cycle c settles in this step, as st.
Settles(c, st) == asm[c].st = "pending" /\ asm'[c].st = st

\* C1: in live mode at most one fetchLiveData assembly is in flight at any
\* time, whatever the sequence of mount, ticks and settlements.
C1_AtMostOneInFlight == ~DEMO_MODE => Cardinality(InFlight) <= 1

\* A tick fired while the first assembly was unresolved: one call in flight.
C1_Witness ==
    ~DEMO_MODE /\ droppedTick /\ cycles = 1 /\ InFlight = {1}

\* C2: when a live assembly fails, the held snapshot stays the one held
\* when the refresh began, isLive becomes false and error is the message of
\* the failure.
C2_FailureKeepsSnapshot ==
    [][\A c \in Cycles :
         Settles(c, "rejected") =>
            /\ data' = hist[c].held
            /\ data' = data
            /\ isLive' = FALSE
            /\ error' # null
            /\ error' = asm'[c].err
            /\ \E k \in Metrics : sub'[c][k].st = "failed"
                                  /\ sub'[c][k].err = error']_vars

\* The token endpoint answered 401 while a snapshot was held: the snapshot
\* is still held, the live flag is off.
C2_Witness ==
    /\ ~DEMO_MODE
    /\ cycles > 1
    /\ error = AuthError(401)
    /\ ~isLive
    /\ data # null
    /\ asm[cycles].st = "rejected"
    /\ data = hist[cycles].held

\* C3: in live mode, whenever the held snapshot is replaced, the assembly
\* that produced the new one was started after the assembly that produced
\* the replaced one had settled.
C3_NoOutOfOrderSnapshot ==
    [][(~DEMO_MODE /\ data # null /\ data' # data) =>
          /\ data' # null
          /\ Origin(data) \in hist[Origin(data')].settled]_vars

\* A second assembly has replaced the snapshot of a first one.
C3_Witness ==
    /\ ~DEMO_MODE
    /\ data # null
    /\ hist[Origin(data)].held # null
    /\ hist[Origin(data)].held # data

\* C4: the held snapshot is null or the complete value of one single call of
\* getGridSnapshot or fetchLiveData that returned: all its series and latest
\* records come from that one cycle, never from two cycles or a failed one.
C4_SnapshotOfOneCycle ==
    \/ data = null
    \/ \E c \in 1..cycles :
          /\ WholeOf(data, c)
          /\ ~DEMO_MODE => asm[c].st = "fulfilled"
          /\ DEMO_MODE => data = getGridSnapshot(c)
          /\ asm[c].value # null => data = asm[c].value

\* A snapshot is held from an earlier cycle while a later cycle has failed.
C4_Witness ==
    /\ ~DEMO_MODE
    /\ data # null
    /\ \E c \in Cycles : c > Origin(data) /\ asm[c].st = "rejected"

\* C5 as stated: once any refresh has completed, successful or failed, the
\* exposed snapshot is not null.
C5_NonNullAfterAnyRefresh ==
    (IF DEMO_MODE THEN cycles > 0 ELSE Settled # {}) => data # null

\* C5, amended: the snapshot is null exactly until the first refresh that
\* completes successfully; failed refreshes leave it null.
C5_NullUntilFirstSuccess ==
    data = null <=>
        (IF DEMO_MODE THEN cycles = 0
                      ELSE \A c \in Cycles : asm[c].st # "fulfilled")

\* A failed refresh after a successful one: the snapshot is still there.
C5_Witness ==
    /\ ~DEMO_MODE
    /\ data # null
    /\ \E c \in Cycles : asm[c].st = "fulfilled"
    /\ cycles > 1
    /\ asm[cycles].st = "rejected"

\* C6: when a live assembly succeeds the held snapshot becomes the assembled
\* one, lastUpdated the instant of the success, isLive true and error null,
\* whatever isLive and error were.
C6_SuccessPublishes ==
    [][\A c \in Cycles :
         Settles(c, "fulfilled") =>
            /\ data' = asm'[c].value
            /\ data' = fetchLiveData([k \in Metrics |-> Series(c, k)])
            /\ lastUpdated' = clock
            /\ isLive' = TRUE
            /\ error' = null]_vars

\* A success right after a failure, at a later instant.
C6_Witness ==
    /\ ~DEMO_MODE
    /\ cycles > 1
    /\ asm[cycles - 1].st = "rejected"
    /\ asm[cycles].st = "fulfilled"
    /\ data = asm[cycles].value
    /\ isLive
    /\ error = null
    /\ lastUpdated = clock
    /\ clock > 0

\* C7: while a live assembly stays unsettled no step, a tick in particular,
\* starts another assembly or changes the snapshot, lastUpdated, isLive or
\* error.
C7_StalledWhileUnsettled ==
    [][(\E c \in Cycles : asm[c].st = "pending" /\ asm'[c].st = "pending") =>
          /\ cycles' = cycles
          /\ InFlight' = InFlight
          /\ UNCHANGED <<data, lastUpdated, isLive, error>>]_vars

\* Ticks were dropped and time went by; the first assembly is still the
\* only one and the controller shows what it showed at mount.
C7_Witness ==
    /\ ~DEMO_MODE
    /\ droppedTick
    /\ InFlight = {1}
    /\ clock = MaxElapse * TOKEN_LIFETIME
    /\ data = null /\ lastUpdated = 0 /\ isLive /\ error = null

\* C8: an assembly has a snapshot only if its four sub-fetches succeeded;
\* as soon as one of them has failed the assembly is rejected with that
\* sub-fetch's error, and has no snapshot.
C8_AllOrNothing ==
    \A c \in Cycles :
        /\ (asm[c].st = "fulfilled" \/ asm[c].value # null) =>
              \A k \in Metrics : sub[c][k].st \in {"ok", "detached"}
        /\ asm[c].value # null =>
              /\ \A k \in Metrics : sub[c][k].st = "ok"
              /\ asm[c].value =
                    fetchLiveData([k \in Metrics |-> sub[c][k].res])
        /\ \A k \in Metrics :
              sub[c][k].st = "failed" =>
                 /\ asm[c].st = "rejected"
                 /\ asm[c].err = sub[c][k].err
                 /\ asm[c].value = null

\* Three sub-fetches succeeded and one failed: rejected, no snapshot.
C8_Witness ==
    \E c \in Cycles :
        /\ asm[c].st = "rejected"
        /\ asm[c].value = null
        /\ Cardinality({k \in Metrics : sub[c][k].st = "ok"}) = 3
        /\ \E k \in EIAMetrics : sub[c][k].err = EIAError(k, 503)

\* C9: an intensity fetch issues a login request exactly when no token is
\* cached or the clock is at or after the cached expiry, and otherwise sends
\* the signal request with the cached token; a stored token expires 25
\* minutes after it was stored.
C9_LoginOnlyWhenNeeded ==
    [][/\ (~DEMO_MODE /\ cycles' = cycles + 1) =>
            /\ hist'[cycles'].login <=>
                  (wattTimeToken = NullToken \/ clock >= tokenExpiry)
            /\ hist'[cycles'].login =>
                  sub'[cycles']["carbon"].st = "login"
            /\ ~hist'[cycles'].login =>
                  /\ sub'[cycles']["carbon"].st = "signal"
                  /\ sub'[cycles']["carbon"].tok = wattTimeToken
       /\ (wattTimeToken' # wattTimeToken \/ tokenExpiry' # tokenExpiry) =>
            /\ wattTimeToken' \in Tokens
            /\ tokenExpiry' = clock + 25 * 60000
            /\ \E c \in Cycles : sub[c]["carbon"].st = "login"]_vars

\* A later assembly went out with the cached token, without a login.
C9_Witness ==
    /\ ~DEMO_MODE
    /\ cycles > 1
    /\ ~hist[cycles].login
    /\ sub[cycles]["carbon"].st = "signal"
    /\ sub[cycles]["carbon"].tok = wattTimeToken
    /\ clock < tokenExpiry

\* ----------------------------------------------------------- pivot properties

\* The signed value a row carries: its parsed value, 0 when it has none.
RowValue(row) == OrZero(parseInt(row.value))

\* The sum of the signed values of the rows of timestamp ts that satisfy
\* keep (a set of row indices).
RowSum(rows, ts, keep) ==
    Sum([j \in 1..Len(rows) |->
           IF j \in keep /\ Timestamp(rows[j].period) = ts
           THEN RowValue(rows[j]) ELSE 0])

\* The timestamps of the rows of a response.
RowTimestamps(rows) == {Timestamp(rows[j].period) : j \in 1..Len(rows)}

\* The neighbours named by the rows of timestamp ts.
NeighboursAt(rows, ts) ==
    {rows[j].toba : j \in {k \in 1..Len(rows) : Timestamp(rows[k].period) = ts}}

\* The sum of the values of the flows of a point.
FlowSum(p) == Sum([i \in 1..Len(p.flows) |-> p.flows[i].value])

\* At most 8 flows, by non-increasing absolute value.
FlowsOrdered(p) ==
    /\ Len(p.flows) <= 8
    /\ \A i \in 1..(Len(p.flows) - 1) :
          Abs(p.flows[i].value) >= Abs(p.flows[i + 1].value)

\* The flows of point p are the neighbours of largest summed magnitude among
\* those the rows name for its timestamp, each with its summed value.
FlowsAreLargest(rows, p) ==
    LET all == NeighboursAt(rows, p.timestamp)
        total(n) == RowSum(rows, p.timestamp,
                           {j \in 1..Len(rows) : rows[j].toba = n})
        kept == {p.flows[i].region : i \in 1..Len(p.flows)}
    IN /\ Len(p.flows) = Min(8, Cardinality(all))
       /\ Cardinality(kept) = Len(p.flows)
       /\ kept \subseteq all
       /\ \A i \in 1..Len(p.flows) : p.flows[i].value = total(p.flows[i].region)
       /\ \A n \in all \ kept : \A m \in kept : Abs(total(n)) <= Abs(total(m))

\* C11: in the live interchange pivot every timestamp of the rows has a
\* point, and its netExport is the sum of the signed values of all the rows
\* of that timestamp, whatever the number of neighbours and whether or not
\* flows was cut to 8.
C11_NetExportIsFullSum ==
    stage = Returned("fetchInterchange") =>
       /\ {output[i].timestamp : i \in 1..Len(output)} = RowTimestamps(input)
       /\ \A i \in 1..Len(output) :
             output[i].netExport =
                RowSum(input, output[i].timestamp, 1..Len(input))

\* Ten neighbours: netExport is the sum of the ten rows, flows holds eight
\* and sums to something else.
C11_Witness ==
    /\ stage = Returned("fetchInterchange")
    /\ Len(input) = 10
    /\ Cardinality(NeighboursAt(input, Timestamp(Periods[1]))) = 10
    /\ Len(output) = 1
    /\ Len(output[1].flows) = 8
    /\ output[1].netExport = 3 * (-300) + 7 * 40
    /\ FlowSum(output[1]) = 3 * (-300) + 5 * 40

\* C12: every InterchangePoint, simulated or live, has at most 8 flows in
\* order of non-increasing absolute value; in the live pivot they are the 8
\* neighbours of largest absolute summed value.
C12_FlowsCappedAndOrdered ==
    /\ stage = Returned("fetchInterchange") =>
          \A i \in 1..Len(output) :
             FlowsOrdered(output[i]) /\ FlowsAreLargest(input, output[i])
    /\ stage = Returned("generateInterchangeData") => FlowsOrdered(output)

\* C13: the netExport of every simulated InterchangePoint is the sum of the
\* values of its flows.
C13_SimulatedNetExportIsSum ==
    stage = Returned("generateInterchangeData") =>
       output.netExport = FlowSum(output)

\* The rows with every value that does not parse replaced by "0".
ZeroUnparsed(rows) ==
    [j \in 1..Len(rows) |->
       IF parseInt(rows[j].value).nan
       THEN [rows[j] EXCEPT !.value = "0"]
       ELSE rows[j]]

\* C18: a row whose value is missing or does not parse counts as a row of
\* value 0 in the generation, demand and interchange pivots: the pivot
\* returns, with a point for every period of the rows, the series it returns
\* for the rows with "0" in place of each such value.
C18_UnparseableCountsAsZero ==
    /\ stage = Returned("fetchGeneration") =>
          /\ output = fetchGeneration(ZeroUnparsed(input))
          /\ {output[i].timestamp : i \in 1..Len(output)} = RowTimestamps(input)
    /\ stage = Returned("fetchDemand") =>
          /\ output = fetchDemand(ZeroUnparsed(input))
          /\ {output[i].timestamp : i \in 1..Len(output)} = RowTimestamps(input)
    /\ stage = Returned("fetchInterchange") =>
          /\ output = fetchInterchange(ZeroUnparsed(input))
          /\ {output[i].timestamp : i \in 1..Len(output)} = RowTimestamps(input)

\* A demand reading with an unparseable forecast: the point has forecast 0.
C18_Witness ==
    /\ stage = Returned("fetchDemand")
    /\ Len(input) = 2
    /\ input[1].type = "D" /\ input[1].value = "250"
    /\ input[2].type = "DF" /\ input[2].value = "N/A"
    /\ input[2].period = input[1].period
    /\ Len(output) = 1
    /\ output[1].demand = 250
    /\ output[1].forecast = 0

\* -------------------------------------------------------- snapshot properties

\* The four series of a live snapshot, and of a simulated one.
SeriesOf(snapshot) == {snapshot.timeSeries[k] : k \in Metrics}

\* Instant a is earlier than instant b.
InstantBefore(a, b) == a.sec < b.sec \/ (a.sec = b.sec /\ a.ms < b.ms)

\* A value of the intensity index.
InRange(value) == 0 <= value /\ value <= 100

\* C14: the value of every CarbonPoint of a snapshot is between 0 and 100:
\* of a live snapshot, series and latest, whatever values the provider
\* returned, and of simulated points after clamping, smoothing and rounding.
C14_CarbonInRange ==
    /\ stage = Returned("fetchLiveData") =>
          /\ \A i \in 1..Len(output.timeSeries["carbon"]) :
                InRange(output.timeSeries["carbon"][i].value)
          /\ InRange(output.latest["carbon"].value)
    /\ stage = Returned("generateCarbonSignal") =>
          \A i \in 1..Len(output) : InRange(output[i].value)

\* The record that stands for latest of metric k when its series is empty.
ZeroValued(k, p) ==
    CASE k = "carbon" -> p.value = 50
      [] k = "generation" ->
            /\ p.timestamp = ""
            /\ p.hydro = 0 /\ p.wind = 0 /\ p.gas = 0 /\ p.solar = 0
            /\ p.other = 0 /\ p.total = 0
      [] k = "demand" -> p.timestamp = "" /\ p.demand = 0 /\ p.forecast = 0
      [] k = "interchange" ->
            p.timestamp = "" /\ p.netExport = 0 /\ p.flows = <<>>

\* C15: in a snapshot assembled by fetchLiveData, latest of each metric is
\* the last element of its series when the series is not empty, and a record
\* of default values, not null, when it is.
C15_LatestIsLastOrFallback ==
    stage = Returned("fetchLiveData") =>
       \A k \in Metrics :
          LET s == output.timeSeries[k]
          IN /\ output.latest[k] # null
             /\ Len(s) > 0 => output.latest[k] = s[Len(s)]
             /\ Len(s) = 0 => ZeroValued(k, output.latest[k])

\* No generation and one intensity point: the intensity series is empty and
\* its latest is the default; demand has two points and its latest is the
\* second.
C15_Witness ==
    /\ stage = Returned("fetchLiveData")
    /\ Len(input.carbon) = 1
    /\ output.timeSeries["carbon"] = <<>>
    /\ output.latest["carbon"].value = 50
    /\ Len(output.timeSeries["demand"]) = 2
    /\ output.latest["demand"] = output.timeSeries["demand"][2]
    /\ output.latest["demand"].timestamp = Timestamp(Periods[2])

\* C16: each of the four series of a snapshot, live for any order and
\* repetition of what the upstreams returned, or simulated, is in strictly
\* ascending order of timestamp, so holds no timestamp twice.
C16_SeriesSortedNoDuplicates ==
    /\ stage = Returned("fetchLiveData") =>
          \A s \in SeriesOf(output) :
             \A i, j \in 1..Len(s) :
                i < j => Before(s[i].timestamp, s[j].timestamp)
    /\ stage = Returned("getGridSnapshot") =>
          \A c \in 1..Len(output) : \A s \in SeriesOf(output[c]) :
             \A i \in 1..(Len(s) - 1) :
                InstantBefore(DateParse(s[i].timestamp),
                              DateParse(s[i + 1].timestamp))

\* C17: when the intensity fetch returned exactly one point, of value v, the
\* intensity series of the snapshot has one point of value v for each point
\* of the generation series, with its timestamp, in the same order.
C17_SinglePointIsPadded ==
    (stage = Returned("fetchLiveData") /\ Len(input.carbon) = 1) =>
       LET v == Round(input.carbon[1].value)
           carbon == output.timeSeries["carbon"]
           generation == output.timeSeries["generation"]
       IN /\ Len(carbon) = Len(generation)
          /\ \A i \in 1..Len(carbon) :
                /\ carbon[i].value = v
                /\ carbon[i].timestamp = generation[i].timestamp

\* Five generation timestamps and one intensity point of 42: five of 42.
C17_Witness ==
    /\ stage = Returned("fetchLiveData")
    /\ Len(input.carbon) = 1
    /\ input.carbon[1].value = 42000
    /\ Len(output.timeSeries["generation"]) = 5
    /\ Len(output.timeSeries["carbon"]) = 5
    /\ \A i \in 1..5 :
          /\ output.timeSeries["carbon"][i].value = 42
          /\ output.timeSeries["carbon"][i].timestamp = Timestamp(Periods[i])

\* C19: each of the four series of getGridSnapshot(now) has 288 points, each
\* timestamp is 5 minutes after the one before it, the last is now, and
\* latest of each metric is the last point of its series.
C19_WindowOf288 ==
    stage = Returned("getGridSnapshot") =>
       \A c \in 1..Len(output) : \A k \in Metrics :
          LET s == output[c].timeSeries[k]
          IN /\ Len(s) = 288
             /\ \A i \in 1..287 :
                   DateParse(s[i + 1].timestamp) =
                      [sec |-> DateParse(s[i].timestamp).sec + 5 * 60,
                       ms |-> DateParse(s[i].timestamp).ms]
             /\ DateParse(s[288].timestamp) = input.now
             /\ output[c].latest[k] = s[288]

\* Called in the last minutes of a leap day: the window starts three
\* minutes into that day and ends at the instant of the call.
C19_Witness ==
    /\ stage = Returned("getGridSnapshot")
    /\ input.now = [sec |-> 1709251087, ms |-> 250]
    /\ output[1].timeSeries["demand"][1].timestamp =
          [year |-> 2024, month |-> 2, day |-> 29, hour |-> 0, minute |-> 3,
           second |-> 7, ms |-> 250]
    /\ output[1].latest["demand"].timestamp =
          [year |-> 2024, month |-> 2, day |-> 29, hour |-> 23, minute |-> 58,
           second |-> 7, ms |-> 250]

\* C20: the calls of getGridSnapshot with one instant all return the same
\* snapshot, whatever number of calls came before: every call makes four
\* closures of its own, seeded from the instant alone, draws from them only,
\* and leaves the closures of the calls before as they were.
C20_SameInstantSameOutput ==
    stage = Returned("getGridSnapshot") =>
       /\ \A c, d \in 1..Len(output) : output[c] = output[d]
       /\ Len(closures) = 4 * Len(output)
       /\ \A c \in 1..Len(output) :
             /\ closures[4 * c - 3] =
                   output[c].timeSeries["carbon"][TOTAL_POINTS].rng[1]
             /\ closures[4 * c - 2] =
                   output[c].timeSeries["generation"][TOTAL_POINTS].rng[5]
             /\ closures[4 * c - 1] =
                   output[c].timeSeries["demand"][TOTAL_POINTS].rng[2]
             /\ closures[4 * c] =
                   output[c].timeSeries["interchange"][TOTAL_POINTS].rng[11]
             /\ output[c].timeSeries["carbon"][1].rng[1] =
                   NextRandom(getDate(input.now, input.zone) * 1000
                                + getMonth(input.now, input.zone) + 1)

\* A second call has returned, with the draws of the first, from closures of
\* its own: eight closures have been made.
C20_Witness ==
    /\ stage = Returned("getGridSnapshot")
    /\ Len(output) >= 2
    /\ Len(closures) = 8
    /\ closures[5] = closures[1]
    /\ output[2].timeSeries["carbon"][288].rng =
          output[1].timeSeries["carbon"][288].rng
    /\ output[2].timeSeries["carbon"][1].rng # output[2].timeSeries["demand"][1].rng

\* ---------------------------------------------------- two-instant properties

\* The two instants of the input have the same day of the month and the same
\* month on the host.
SameCalendarDay ==
    /\ getDate(input.now, input.zone) = getDate(input.later, input.zone)
    /\ getMonth(input.now, input.zone) = getMonth(input.later, input.zone)

\* What the numbers of a simulated point are computed from.
ValuesOf(p) == [hour |-> p.hour, rng |-> p.rng]

\* C21 as stated: for two instants with the same day of the month and the
\* same month, whatever their time of day, getGridSnapshot yields the same
\* sequence of simulated values for each metric.
C21_SameDaySameValues ==
    (stage = "getGridSnapshot:later" /\ SameCalendarDay) =>
       \A k \in Metrics : \A i \in 1..TOTAL_POINTS :
          ValuesOf(output[1].timeSeries[k][i]) =
             ValuesOf(output[2].timeSeries[k][i])

\* C21, amended: for two instants with the same day of the month and the
\* same month on the host, each generator makes the same random draws in
\* each turn of its loop; a point's hour of the day, which its values depend
\* on too, is the same in both calls only when the two times of day are.
C21_SameDaySameDraws ==
    (stage = "getGridSnapshot:later" /\ SameCalendarDay) =>
       \A k \in Metrics : \A i \in 1..TOTAL_POINTS :
          LET p == output[1].timeSeries[k][i]
              q == output[2].timeSeries[k][i]
          IN /\ p.rng = q.rng
             /\ p.hour = q.hour <=>
                   getHours(input.now, input.zone) * 60
                      + getMinutes(input.now, input.zone)
                   = getHours(input.later, input.zone) * 60
                        + getMinutes(input.later, input.zone)

\* Noon and half past six in the evening of one day: the last points have
\* the same draws and the hours 12:00 and 18:30.
C21_Witness ==
    /\ stage = "getGridSnapshot:later"
    /\ SameCalendarDay
    /\ input.zone = 0
    /\ input.now.sec = 1721044800 /\ input.later.sec = 1721068200
    /\ output[1].latest["demand"].rng = output[2].latest["demand"].rng
    /\ output[1].latest["demand"].hour = 12 * 60
    /\ output[2].latest["demand"].hour = 18 * 60 + 30

\* ------------------------------------------------ more controller properties

\* C22: in simulated mode the mount tick and every later tick replace the
\* held snapshot with the one getGridSnapshot made for that tick, none being
\* dropped by the in-flight guard, and in every state isLive is true and
\* error is null.
C22_SimulatedTicksAlwaysPublish ==
    /\ [](DEMO_MODE => isLive /\ error = null /\ ~fetching /\ ~droppedTick)
    /\ [][(DEMO_MODE /\ (mounted' # mounted \/ cycles' # cycles
                             \/ data' # data)
                     /\ mounted' = "mounted") =>
             /\ cycles' = cycles + 1
             /\ WholeOf(data', cycles')
             /\ data' # data
             /\ lastUpdated' = clock]_vars

\* The second simulated tick has replaced the snapshot of the mount tick.
C22_Witness ==
    /\ DEMO_MODE
    /\ mounted = "mounted"
    /\ cycles = 2
    /\ WholeOf(data, 2)
    /\ isLive /\ error = null
    /\ ~droppedTick

\* A request of cycle c is still out: its answer will settle a sub-fetch.
RequestOut(c) ==
    \E k \in Metrics : sub[c][k].st \in {"login", "signal", "pending"}

\* C25: once the view has unmounted it stays unmounted and no refresh starts
\* and no tick runs; an assembly in flight is not cancelled: its requests
\* are still out, it stays pending until it settles, and when it settles
\* the rest of refresh runs as it does while mounted.
C25_NoRefreshAfterUnmount ==
    /\ [](mounted = "unmounted" => \A c \in InFlight : RequestOut(c))
    /\ [][mounted = "unmounted" =>
             /\ mounted' = "unmounted"
             /\ cycles' = cycles
             /\ droppedTick' = droppedTick
             /\ \A c \in Cycles :
                   /\ asm[c].st = "pending" =>
                         asm'[c].st \in {"pending", "fulfilled", "rejected"}
                   /\ asm[c].st # "pending" => asm'[c].st = asm[c].st
                   /\ Settles(c, "fulfilled") =>
                         data' = asm'[c].value /\ isLive' /\ ~fetching'
                   /\ Settles(c, "rejected") =>
                         data' = data /\ ~isLive' /\ ~fetching']_vars

\* The view has unmounted while the second assembly is in flight, one of
\* its sub-fetches answered.
C25_Witness ==
    /\ mounted = "unmounted"
    /\ cycles = 2
    /\ InFlight = {2}
    /\ fetching
    /\ sub[2]["demand"].st = "ok"
    /\ RequestOut(2)

\* C26: in live mode fetching.current is set exactly while an assembly is
\* pending: it is cleared when the assembly settles, by success or by
\* failure, and a tick that finds it cleared starts a new assembly; with a
\* timer that keeps firing and requests that are answered, an assembly that
\* failed is followed by a new one, unless the view unmounts first (or the
\* bound on the number of refreshes is reached).
C26_FailureIsFollowedByRefresh ==
    /\ [](~DEMO_MODE => (fetching <=> InFlight # {}))
    /\ [][~DEMO_MODE =>
             /\ \A c \in Cycles :
                   (Settles(c, "fulfilled") \/ Settles(c, "rejected")) =>
                      fetching /\ ~fetching'
             /\ cycles' # cycles =>
                   /\ ~fetching /\ fetching'
                   /\ cycles' = cycles + 1
                   /\ asm'[cycles'].st = "pending"]_vars
    /\ (~DEMO_MODE /\ fetching) ~> ~fetching
    /\ (~DEMO_MODE /\ ~fetching /\ ~isLive) ~>
          (fetching \/ mounted = "unmounted" \/ cycles = MaxCycles)

\* The first assembly failed and a tick has started the second.
C26_Witness ==
    /\ ~DEMO_MODE
    /\ cycles = 2
    /\ asm[1].st = "rejected"
    /\ asm[2].st = "pending"
    /\ fetching
    /\ ~isLive

\* C28: in every state isLive is false exactly when error is not null: a
\* failure sets error and clears isLive, a success clears error and sets
\* isLive, and no other step, a dropped tick and a simulated tick among
\* them, changes either.
C28_LiveIffNoError ==
    /\ [](isLive <=> error = null)
    /\ [][/\ \A c \in Cycles :
                /\ Settles(c, "rejected") => ~isLive' /\ error' = asm'[c].err
                /\ Settles(c, "fulfilled") => isLive' /\ error' = null
          /\ (\A c \in Cycles : asm[c].st = "pending" => asm'[c].st = "pending")
                => isLive' = isLive /\ error' = error]_vars

\* A tick was dropped while the first assembly was in flight; it failed,
\* and the second succeeded: error is null again and isLive true.
C28_Witness ==
    /\ ~DEMO_MODE
    /\ droppedTick
    /\ cycles = 2
    /\ asm[1].st = "rejected"
    /\ asm[2].st = "fulfilled"
    /\ isLive
    /\ error = null

\* --------------------------------------------------------- more pivot properties

\* A demand row of one of the two categories the query asks for.
ExpectedDemandRow(row) == row.type \in {"D", "DF"}

\* C23: a demand row whose type is neither D nor DF is dropped: the series
\* fetchDemand makes of a response is the series it makes of the response
\* without such rows.
C23_UnexpectedDemandRowsDropped ==
    stage = Returned("fetchDemand") =>
       output = fetchDemand(SelectSeq(input, ExpectedDemandRow))

\* C27: a published snapshot is immutable: rendering the interchange panel
\* changes neither the contents nor the order of any array or record of the
\* snapshot the controller holds.
C27_RenderLeavesSnapshot ==
    [][stage' = "InterchangePanel:rendered" => output' = output]_vars

\* The rows with rows i and j exchanged.
Swap(rows, i, j) ==
    [k \in 1..Len(rows) |->
       IF k = i THEN rows[j] ELSE IF k = j THEN rows[i] ELSE rows[k]]

\* The row sets that differ from rows by the exchange of two rows.  Every
\* permutation is a chain of such exchanges, and the responses drawn over a
\* set of rows hold every reordering of each of them.
Swaps(rows) == {Swap(rows, i, j) : i, j \in 1..Len(rows)}

\* No two rows have the same period and the same category.
DistinctCategories(rows, category) ==
    \A i, j \in 1..Len(rows) :
       (i # j /\ rows[i].period = rows[j].period) =>
          rows[i][category] # rows[j][category]

\* No two neighbours of one period have sums of the same magnitude.
NoTies(rows) ==
    LET byPeriod == InterchangeRows(<<>>, rows)
    IN \A p \in 1..Len(byPeriod) :
          \A i, j \in 1..Len(byPeriod[p].flows) :
             i # j => Abs(byPeriod[p].flows[i].value)
                         # Abs(byPeriod[p].flows[j].value)

\* C29 as stated: each pivot of provider B returns the same series for any
\* reordering of the rows of a response, rows of the same period and
\* category included.
C29_RowOrderIsIrrelevant ==
    /\ stage = Returned("fetchGeneration") =>
          \A r \in Swaps(input) : fetchGeneration(r) = output
    /\ stage = Returned("fetchDemand") =>
          \A r \in Swaps(input) : fetchDemand(r) = output
    /\ stage = Returned("fetchInterchange") =>
          \A r \in Swaps(input) : fetchInterchange(r) = output

\* C29, amended: the generation and the demand pivot return the same series
\* for any reordering of rows no two of which have the same period and
\* category; the interchange pivot returns the same timestamps and
\* netExport for any reordering of any rows, and the same series when no
\* two neighbours of a period have sums of equal magnitude.
C29_RowOrderOfDistinctRows ==
    /\ (stage = Returned("fetchGeneration")
           /\ DistinctCategories(input, "fueltype")) =>
          \A r \in Swaps(input) : fetchGeneration(r) = output
    /\ (stage = Returned("fetchDemand")
           /\ DistinctCategories(input, "type")) =>
          \A r \in Swaps(input) : fetchDemand(r) = output
    /\ stage = Returned("fetchInterchange") =>
          \A r \in Swaps(input) :
             LET q == fetchInterchange(r)
             IN /\ Len(q) = Len(output)
                /\ \A i \in 1..Len(q) :
                      /\ q[i].timestamp = output[i].timestamp
                      /\ q[i].netExport = output[i].netExport
                /\ NoTies(input) => q = output

\* Three demand rows of distinct period and type, the later period first:
\* the series has the two periods in order, as it has with the first two
\* rows exchanged.
C29_Witness ==
    /\ stage = Returned("fetchDemand")
    /\ Len(input) = 3
    /\ DistinctCategories(input, "type")
    /\ input[1].period = Periods[2] /\ input[1].type = "D"
    /\ input[2].period = Periods[1] /\ input[2].type = "D"
    /\ input[3].period = Periods[2] /\ input[3].type = "DF"
    /\ input[1].value = "250" /\ input[2].value = "-40"
    /\ Len(output) = 2
    /\ output[1].timestamp = Timestamp(Periods[1])
    /\ output[1].demand = -40
    /\ output[2].demand = 250
    /\ fetchDemand(Swap(input, 1, 2)) = output

\* ------------------------------------------------------ more snapshot properties

\* The body json is a JSON object without response.data, or with null for
\* it.
NoResponseData(json) == json # null /\ json # NotJSON /\ ~HasData(json)

\* C24 as stated: whenever provider B answers a sub-fetch 2xx with a body
\* that has no response.data, the literal null and a body that is not JSON
\* included, and the other sub-fetches resolve, the assembly succeeds with
\* an empty series for that metric and the controller publishes it with
\* isLive true.
C24_AnyBodyWithoutData ==
    \A k \in EIAMetrics :
       (/\ stage \in {Returned("fetchLiveData"), "fetchLiveData:rejected"}
        /\ ~HasData(input[k])
        /\ \A m \in EIAMetrics \ {k} : input[m] # null /\ input[m] # NotJSON) =>
          /\ stage = Returned("fetchLiveData")
          /\ output.timeSeries[k] = <<>>
          /\ isLive

\* C24, amended: when provider B answers a sub-fetch 2xx with a JSON object
\* that has no response.data, or null for it (and the other sub-fetches
\* resolve), the assembly does not reject: the series of that metric is empty
\* and its latest is the record of default values, and refresh publishes
\* that snapshot with isLive true and error null.  When the body is the
\* literal null or is not JSON, the sub-fetch raises: the assembly rejects,
\* no snapshot is published, isLive is false and error is what was raised.
C24_NoDataIsAnEmptySeries ==
    /\ \A k \in EIAMetrics :
          (/\ stage \in {Returned("fetchLiveData"), "fetchLiveData:rejected"}
           /\ NoResponseData(input[k])
           /\ \A m \in EIAMetrics : input[m] # null /\ input[m] # NotJSON) =>
             /\ stage = Returned("fetchLiveData")
             /\ output.timeSeries[k] = <<>>
             /\ ZeroValued(k, output.latest[k])
             /\ data = output
             /\ isLive
             /\ error = null
    /\ \A k \in EIAMetrics :
          (/\ stage \in {Returned("fetchLiveData"), "fetchLiveData:rejected"}
           /\ (input[k] = null \/ input[k] = NotJSON)) =>
             /\ stage = "fetchLiveData:rejected"
             /\ data = null
             /\ ~isLive
             /\ error = output
             /\ error = IF input[k] = null THEN TypeError ELSE SyntaxError

\* The demand body holds no data and the generation body five periods: the
\* published snapshot has five generation points and no demand point.
C24_Witness ==
    /\ stage = Returned("fetchLiveData")
    /\ input.demand = NoDataResponse
    /\ isLive
    /\ ~fetching
    /\ Len(data.timeSeries["generation"]) = 5
    /\ data.timeSeries["demand"] = <<>>
    /\ data.latest["demand"] = NewDemandPoint("")

\* C30 as stated: whenever the intensity fetch returned at least one point,
\* latest.carbon.value of the assembled snapshot is the rounded value of one
\* of the points returned, whatever the generation series, an empty one
\* included.
C30_LatestCarbonIsAProviderValue ==
    (stage = Returned("fetchLiveData") /\ Len(input.carbon) >= 1) =>
       \E i \in 1..Len(input.carbon) :
          output.latest["carbon"].value = Round(input.carbon[i].value)

\* C30, amended: latest.carbon.value is the rounded value of the last point
\* returned when the provider returned several, and of the only point when
\* it returned one and the generation series is not empty; it is the
\* default 50 when the provider returned no point, and also when it
\* returned one point and the generation series is empty.
C30_LatestCarbonOrDefault ==
    stage = Returned("fetchLiveData") =>
       LET n == Len(input.carbon)
           g == Len(output.timeSeries["generation"])
           v == output.latest["carbon"].value
       IN /\ n > 1 => v = Round(input.carbon[n].value)
          /\ (n = 1 /\ g > 0) => v = Round(input.carbon[1].value)
          /\ (n = 1 /\ g = 0) => v = 50
          /\ n = 0 => v = 50

\* The provider returned one point, of 42, and the generation body holds no
\* rows: the intensity series is empty and latest.carbon.value is 50.
C30_Witness ==
    /\ stage = Returned("fetchLiveData")
    /\ Len(input.carbon) = 1
    /\ input.carbon[1].value = 42000
    /\ input.generation = ErrorDocument
    /\ output.timeSeries["generation"] = <<>>
    /\ output.timeSeries["carbon"] = <<>>
    /\ output.latest["carbon"].value = 50

====
